---- MODULE Spec2Model ----
(***************************************************************************)
(* Model of the personalized meta-search engine:                           *)
(*   - supabase/functions/multi-search/index.ts  (deduplication, the seven *)
(*     rank-aggregation strategies, the request handler),                  *)
(*   - the compute-sqm edge function (importance, Spearman rho, running    *)
(*     average of the per-engine search quality measure),                  *)
(*   - the update-learning-index edge function (importance, exponential    *)
(*     smoothing of the learned score).                                    *)
(* Strings that the code inspects character by character (URLs) are        *)
(* sequences of one-character strings.  JavaScript numbers that are not    *)
(* integers are exact rationals [n |-> numerator, d |-> denominator > 0]   *)
(* in lowest terms.                                                        *)
(***************************************************************************)
EXTENDS Integers, Sequences, FiniteSets, TLC

VARIABLES
  \* ---- rank aggregation as a pipeline of pure functions
  aggPc,          \* "input" | "deduped" | "ranked"
  engineResults,  \* EngineResult[] handed to deduplicateResults
  deduplicated,   \* MergedDoc[] returned by deduplicateResults
  aggregationMethod, \* the request's aggregation_method
  sqmScores,      \* Record<string, number> handed to rankResults
  merged,         \* MergedDoc[] returned by rankResults
  \* ---- the multi-search request handler
  hPc,            \* "off" | "searching" | "lookup" | "ranking" | "done"
  request,        \* what the request carries and the environment provides
  enginePromise,  \* per engine: Pending, or the settled searchEngine call
  learningResults,\* the EngineResult of the "learned" source
  response,       \* the HTTP response
  \* ---- compute-sqm and update-learning-index
  session,        \* the profile, search_results, user_feedback and query of a session
  docImportance,  \* compute-sqm: docImportance after the sort
  sqmResults,     \* compute-sqm: sqmResults
  sqmResponse,    \* compute-sqm: the HTTP response
  learnDocs,      \* update-learning-index: the documents with feedback and their I(d)
  learnResponse,  \* update-learning-index: the HTTP response
  search_quality_measures, \* the table, rows of one user
  feedback_learning_index, \* the table, rows of one user
  sqmCall,        \* per invocation of compute-sqm: its position and locals
  learnCall,      \* the invocation of update-learning-index: its position and locals
  observed,       \* history: per engine the rho values whose upsert has completed
  \* ---- the page: the feedback tracker and the search form
  user_feedback,  \* the table, rows of one user for one search result
  trackCall,      \* per call of the feedback tracker: its position and locals
  clickCounter,   \* useFeedbackTracker: clickCounter.current
  openTabs,       \* useFeedbackTracker: openTabs.current, the entry of the search result
  recorded,       \* history: the signals the tracker was called with, in call order
  prevHistoryIdRef, \* Index.tsx: prevHistoryIdRef.current
  searchPc,       \* Index.tsx: where handleSearch stands, or "unloaded"
  search_history, \* the table: the number of rows inserted, with ids 1, 2, ...
  events          \* history: edge function invocations and their table accesses

aggVars == <<aggPc, engineResults, deduplicated, aggregationMethod, sqmScores, merged>>

handlerVars == <<hPc, request, enginePromise, learningResults, response>>

scoreVars == <<session, docImportance, sqmResults, sqmResponse, learnDocs, learnResponse>>

tableVars == <<search_quality_measures, feedback_learning_index>>

callVars == <<sqmCall, learnCall, observed>>

feedbackVars == <<scoreVars, tableVars, callVars>>

trackVars == <<user_feedback, trackCall, clickCounter, openTabs, recorded>>

clientVars == <<prevHistoryIdRef, searchPc, search_history, events>>

pageVars == <<trackVars, clientVars>>

vars == <<aggVars, handlerVars, feedbackVars, pageVars>>

----------------------------------------------------------------------------
(* Bounds of the model *)

MaxPerEngine == 2     \* results per engine list
MaxEntries == 3       \* results over all engine lists of one request
MaxOrganic == 1       \* organic results in one SerpAPI answer of the handler model

----------------------------------------------------------------------------
(* Exact rational arithmetic for JavaScript's non-integer numbers *)

Abs(x) == IF x < 0 THEN -x ELSE x

RECURSIVE Gcd(_, _)
Gcd(a, b) == IF b = 0 THEN a ELSE Gcd(b, a % b)

Rat(n, d) ==
  LET g == Gcd(Abs(n), Abs(d))
      s == IF d < 0 THEN -1 ELSE 1
  IN  [n |-> (s * n) \div g, d |-> (s * d) \div g]

RInt(k) == [n |-> k, d |-> 1]
RAdd(x, y) == Rat(x.n * y.d + y.n * x.d, x.d * y.d)
RSub(x, y) == Rat(x.n * y.d - y.n * x.d, x.d * y.d)
RMul(x, y) == Rat(x.n * y.n, x.d * y.d)
RDiv(x, y) == Rat(x.n * y.d, x.d * y.n)
RLess(x, y) == x.n * y.d < y.n * x.d
RLeq(x, y) == x.n * y.d <= y.n * x.d

----------------------------------------------------------------------------
(* Array.prototype.sort: stable, comparator(a, b) < 0 puts a before b.     *)
(* Before(a, b) is "comparator(a, b) < 0".                                 *)

Insert(sorted, x, Before(_, _)) ==
  LET later == {i \in 1..Len(sorted) : Before(x, sorted[i])}
      at == IF later = {} THEN Len(sorted) + 1
            ELSE CHOOSE i \in later : \A j \in later : i <= j
  IN  SubSeq(sorted, 1, at - 1) \o <<x>> \o SubSeq(sorted, at, Len(sorted))

Sort(s, Before(_, _)) ==
  LET upTo[i \in 0..Len(s)] ==
        IF i = 0 THEN <<>> ELSE Insert(upTo[i - 1], s[i], Before)
  IN  upTo[Len(s)]

----------------------------------------------------------------------------
(* URL normalisation: r.link.replace(/\/+$/, "").toLowerCase() *)

LowerChar(c) == IF c = "A" THEN "a" ELSE IF c = "B" THEN "b" ELSE c

ToLowerCase(s) == [i \in 1..Len(s) |-> LowerChar(s[i])]

RECURSIVE StripTrailingSlashes(_)
StripTrailingSlashes(s) ==
  IF Len(s) > 0 /\ s[Len(s)] = "/"
  THEN StripTrailingSlashes(SubSeq(s, 1, Len(s) - 1))
  ELSE s

\* mutant: only one trailing slash is stripped, as replace(/\/$/, "") would
NormalizeUrlOneSlash(link) ==
  ToLowerCase(IF Len(link) > 0 /\ link[Len(link)] = "/"
              THEN SubSeq(link, 1, Len(link) - 1) ELSE link)

NormalizeUrl(link) == ToLowerCase(StripTrailingSlashes(link))

----------------------------------------------------------------------------
(* deduplicateResults *)

\* titles and snippets are character sequences, "" is the empty one
EmptyString == <<>>

\* the (engine, result) pairs in the order the two nested loops visit them
RECURSIVE FlattenFrom(_, _)
FlattenFrom(ers, i) ==
  IF i > Len(ers) THEN <<>>
  ELSE [k \in 1..Len(ers[i].results) |->
          [engine |-> ers[i].engine, r |-> ers[i].results[k]]]
       \o FlattenFrom(ers, i + 1)

Flatten(ers) == FlattenFrom(ers, 1)

\* urlMap is a Map: a sequence of [key, doc] in insertion order
MapIndex(urlMap, key) ==
  LET hits == {i \in 1..Len(urlMap) : urlMap[i].key = key}
  IN  IF hits = {} THEN 0 ELSE CHOOSE i \in hits : TRUE

DedupStep(urlMap, engine, r) ==
  LET normalizedUrl == NormalizeUrl(r.link)
      at == MapIndex(urlMap, normalizedUrl)
  IN  IF at # 0
      THEN LET existing == urlMap[at].doc
               pushed == [existing EXCEPT
                            !.engines = Append(@, [engine |-> engine, rank |-> r.position])]
               filled == IF existing.snippet = EmptyString /\ r.snippet # EmptyString
                         THEN [pushed EXCEPT !.snippet = r.snippet]
                         ELSE pushed
           IN  [urlMap EXCEPT ![at].doc = filled]
      ELSE Append(urlMap,
                  [key |-> normalizedUrl,
                   doc |-> [url |-> r.link, title |-> r.title, snippet |-> r.snippet,
                            engines |-> <<[engine |-> engine, rank |-> r.position]>>]])

RECURSIVE DedupFrom(_, _, _)
DedupFrom(entries, i, urlMap) ==
  IF i > Len(entries) THEN urlMap
  ELSE LET next == DedupStep(urlMap, entries[i].engine, entries[i].r)
       IN  \* the map after this entry is worked out before the loop moves on
           IF Len(next) > 0 THEN DedupFrom(entries, i + 1, next) ELSE next

deduplicateResults(ers) ==
  LET urlMap == DedupFrom(Flatten(ers), 1, <<>>)
  IN  [i \in 1..Len(urlMap) |-> urlMap[i].doc]

----------------------------------------------------------------------------
(* Rank aggregation *)

N == 10

\* Array.prototype.reduce((sum, x) => sum + F(x), 0)
Sum(s, F(_)) ==
  LET upTo[i \in 0..Len(s)] == IF i = 0 THEN 0 ELSE upTo[i - 1] + F(s[i])
  IN  upTo[Len(s)]

\* doc.engines.find(e => e.engine === engine): the first entry of that engine
getRank(doc, engine) ==
  LET hits == {i \in 1..Len(doc.engines) : doc.engines[i].engine = engine}
  IN  IF hits = {} THEN N + 1
      ELSE doc.engines[CHOOSE i \in hits : \A j \in hits : i <= j].rank

\* mutant: the rank itself is summed instead of N + 1 - rank
bordaScoreOfRanks(doc) ==
  LET Contribution(e) == e.rank
  IN  Sum(doc.engines, Contribution)

bordaScore(doc) ==
  LET Contribution(e) == N + 1 - e.rank
  IN  Sum(doc.engines, Contribution)

aggregateBorda(docs) ==
  LET Before(a, b) == bordaScore(b) - bordaScore(a) < 0
  IN  Sort(docs, Before)

SortByScoreDescKeyed(scores) ==
  LET Before(a, b) == RLess(b.score, a.score)
      first == {i \in 1..Len(scores) : \A j \in 1..(i - 1) : scores[j].score # scores[i].score}
      keep(x) == \E i \in first : scores[i] = x
      sorted == Sort(SelectSeq(scores, keep), Before)
  IN  [i \in 1..Len(sorted) |-> sorted[i].doc]

\* the documents of a score list sorted by descending score, as
\* scores.sort((a, b) => b.score - a.score) followed by scores.map(s => s.doc)
SortByScoreDesc(scores) ==
  LET Before(a, b) == RLess(b.score, a.score)
      sorted == Sort(scores, Before)
  IN  [i \in 1..Len(sorted) |-> sorted[i].doc]

\* the minimum of Pref(i, j) over the documents j other than i; Infinity becomes 1
MinOverOthers(docs, i, Pref(_, _)) ==
  LET others == (1..Len(docs)) \ {i}
  IN  IF others = {} THEN RInt(1)
      ELSE LET j == CHOOSE k \in others :
                      \A l \in others : RLeq(Pref(i, k), Pref(i, l))
           IN  Pref(i, j)

\* mutant: a document is preferred only where its rank is strictly better
aggregateShimuraStrict(docs, engines) ==
  LET m == Len(engines)
      Pref(i, j) ==
        Rat(Cardinality({e \in 1..Len(engines) :
                           getRank(docs[i], engines[e]) < getRank(docs[j], engines[e])}),
            m)
  IN  IF m = 0 THEN aggregateBorda(docs)
      ELSE SortByScoreDesc([i \in 1..Len(docs) |->
                              [doc |-> docs[i], score |-> MinOverOthers(docs, i, Pref)]])

aggregateShimura(docs, engines) ==
  LET m == Len(engines)
      Pref(i, j) ==
        Rat(Cardinality({e \in 1..Len(engines) :
                           getRank(docs[i], engines[e]) <= getRank(docs[j], engines[e])}),
            m)
  IN  IF m = 0 THEN aggregateBorda(docs)
      ELSE SortByScoreDesc([i \in 1..Len(docs) |->
                              [doc |-> docs[i], score |-> MinOverOthers(docs, i, Pref)]])

\* the keys of the Map freq in insertion order: the distinct ranks by first occurrence
Distinct(ranks) ==
  LET firsts == {i \in 1..Len(ranks) : \A j \in 1..(i - 1) : ranks[j] # ranks[i]}
      Nth[k \in 0..Cardinality(firsts)] ==
        IF k = 0 THEN 0
        ELSE CHOOSE i \in firsts :
               /\ i > Nth[k - 1]
               /\ \A j \in firsts : j > Nth[k - 1] => i <= j
  IN  [k \in 1..Cardinality(firsts) |-> ranks[Nth[k]]]

\* mutant: of equally frequent ranks the first one met is kept
modalRankFirstMet(doc, engines) ==
  LET ranks == [e \in 1..Len(engines) |-> getRank(doc, engines[e])]
      keys == Distinct(ranks)
      Count(r) == Cardinality({e \in 1..Len(ranks) : ranks[e] = r})
      best[k \in 0..Len(keys)] ==
        IF k = 0 THEN [maxFreq |-> 0, bestRank |-> N + 1]
        ELSE LET prev == best[k - 1]
             IN  IF Count(keys[k]) > prev.maxFreq
                 THEN [maxFreq |-> Count(keys[k]), bestRank |-> keys[k]]
                 ELSE prev
  IN  best[Len(keys)].bestRank

modalRank(doc, engines) ==
  LET ranks == [e \in 1..Len(engines) |-> getRank(doc, engines[e])]
      keys == Distinct(ranks)
      Count(r) == Cardinality({e \in 1..Len(ranks) : ranks[e] = r})
      best[k \in 0..Len(keys)] ==
        IF k = 0 THEN [maxFreq |-> 0, bestRank |-> N + 1]
        ELSE LET prev == best[k - 1]
                 rank == keys[k]
                 count == Count(rank)
             IN  IF count > prev.maxFreq \/ (count = prev.maxFreq /\ rank < prev.bestRank)
                 THEN [maxFreq |-> count, bestRank |-> rank]
                 ELSE prev
  IN  best[Len(keys)].bestRank

aggregateModal(docs, engines) ==
  LET Before(a, b) == modalRank(a, engines) - modalRank(b, engines) < 0
  IN  Sort(docs, Before)

\* mutant: the memberships are summed instead of maximised
mfoScoreSummed(doc, engines) ==
  LET sum[e \in 0..Len(engines)] ==
        IF e = 0 THEN RInt(0)
        ELSE RAdd(sum[e - 1], Rat(N + 1 - getRank(doc, engines[e]), N))
  IN  sum[Len(engines)]

mfoScore(doc, engines) ==
  LET maxMu[e \in 0..Len(engines)] ==
        IF e = 0 THEN RInt(0)
        ELSE LET r == getRank(doc, engines[e])
                 mu == Rat(N + 1 - r, N)
             IN  IF RLess(maxMu[e - 1], mu) THEN mu ELSE maxMu[e - 1]
  IN  maxMu[Len(engines)]

aggregateMFO(docs, engines) ==
  LET Before(a, b) == RLess(mfoScore(a, engines), mfoScore(b, engines))
  IN  Sort(docs, LAMBDA a, b : Before(b, a))

\* sqrt(x) - sqrt(y) > d for naturals x, y and an integer d, decided in integers
SqrtDiffGreater(x, y, d) ==
  IF d < 0
  THEN \/ x >= y
       \/ LET e == -d
              l == y - x - e * e
          IN  l < 0 \/ l * l < 4 * e * e * x
  ELSE LET l == x - y - d * d
       IN  l > 0 /\ l * l > 4 * d * d * y

\* mbvScore(doc) = -(mean - 0.5 * sqrt(variance)); with m ranks of sum s and sum of
\* squares q, mean = s / m and sqrt(variance) = sqrt(m * q - s * s) / m, so
\* 2 * m * mbvScore = sqrt(m * q - s * s) - 2 * s
mbvTerms(doc, engines) ==
  LET ranks == [e \in 1..Len(engines) |-> getRank(doc, engines[e])]
      Id(r) == r
      Sq(r) == r * r
      s == Sum(ranks, Id)
      q == Sum(ranks, Sq)
  IN  [s |-> s, v |-> Len(ranks) * q - s * s]

\* mbvScore(x) > mbvScore(y); with no engine both scores are NaN and nothing compares
mbvGreater(x, y, engines) ==
  /\ Len(engines) > 0
  /\ LET tx == mbvTerms(x, engines)
         ty == mbvTerms(y, engines)
     IN  SqrtDiffGreater(tx.v, ty.v, 2 * (tx.s - ty.s))

aggregateMBV(docs, engines) ==
  LET Before(a, b) == mbvGreater(a, b, engines)
  IN  Sort(docs, Before)

\* mutant: only the first of the sorted values has a weight
owaWeightsFirstOnly(m) == [j \in 1..m |-> IF j = 1 THEN RInt(1) ELSE RInt(0)]

\* w_j = 2(m + 1 - j) / (m(m + 1))
owaWeights(m) == [j \in 1..m |-> Rat(2 * (m + 1 - j), m * (m + 1))]

aggregateOWAUnsorted(docs, engines) ==
  LET m == Len(engines)
      weights == owaWeights(m)
      Pref(i, j) ==
        LET prefs == [e \in 1..m |->
                        IF getRank(docs[i], engines[e]) <= getRank(docs[j], engines[e])
                        THEN 1 ELSE 0]
            owaVal[idx \in 0..m] ==
              IF idx = 0 THEN RInt(0)
              ELSE RAdd(owaVal[idx - 1], RMul(weights[idx], RInt(prefs[idx])))
        IN  owaVal[m]
  IN  IF m = 0 THEN aggregateBorda(docs)
      ELSE SortByScoreDesc([i \in 1..Len(docs) |->
                              [doc |-> docs[i], score |-> MinOverOthers(docs, i, Pref)]])

aggregateOWA(docs, engines) ==
  LET m == Len(engines)
      weights == owaWeights(m)
      Pref(i, j) ==
        LET prefs == [e \in 1..m |->
                        IF getRank(docs[i], engines[e]) <= getRank(docs[j], engines[e])
                        THEN 1 ELSE 0]
            sorted == Sort(prefs, LAMBDA x, y : y - x < 0)
            owaVal[idx \in 0..m] ==
              IF idx = 0 THEN RInt(0)
              ELSE RAdd(owaVal[idx - 1], RMul(weights[idx], RInt(sorted[idx])))
        IN  owaVal[m]
  IN  IF m = 0 THEN aggregateBorda(docs)
      ELSE SortByScoreDesc([i \in 1..Len(docs) |->
                              [doc |-> docs[i], score |-> MinOverOthers(docs, i, Pref)]])

\* mutant: an engine without a stored SQM weighs 0
biasedScoreDefaultZero(doc, sqm) ==
  LET sum[k \in 0..Len(doc.engines)] ==
        IF k = 0 THEN RInt(0)
        ELSE LET e == doc.engines[k]
                 w == IF e.engine \in DOMAIN sqm THEN sqm[e.engine] ELSE RInt(0)
             IN  RAdd(sum[k - 1], RMul(w, RInt(N + 1 - e.rank)))
  IN  sum[Len(doc.engines)]

\* sqmScores is a function from the engines with a stored SQM to their score
biasedScore(doc, sqm) ==
  LET sum[k \in 0..Len(doc.engines)] ==
        IF k = 0 THEN RInt(0)
        ELSE LET e == doc.engines[k]
                 w == IF e.engine \in DOMAIN sqm THEN sqm[e.engine] ELSE RInt(1)
             IN  RAdd(sum[k - 1], RMul(w, RInt(N + 1 - e.rank)))
  IN  sum[Len(doc.engines)]

aggregateBiased(docs, sqm) ==
  LET Before(a, b) == RLess(biasedScore(a, sqm), biasedScore(b, sqm))
  IN  Sort(docs, LAMBDA a, b : Before(b, a))

\* mutant: the switch has no default branch and an unknown name leaves the input as is
rankResultsNoDefault(docs, mth, activeEngines, sqm) ==
  CASE mth = "shimura" -> aggregateShimura(docs, activeEngines)
    [] mth = "modal" -> aggregateModal(docs, activeEngines)
    [] mth = "mfo" -> aggregateMFO(docs, activeEngines)
    [] mth = "mbv" -> aggregateMBV(docs, activeEngines)
    [] mth = "owa" -> aggregateOWA(docs, activeEngines)
    [] mth = "biased" -> aggregateBiased(docs, sqm)
    [] mth = "borda" -> aggregateBorda(docs)
    [] OTHER -> docs

rankResults(docs, mth, activeEngines, sqm) ==
  CASE mth = "shimura" -> aggregateShimura(docs, activeEngines)
    [] mth = "modal" -> aggregateModal(docs, activeEngines)
    [] mth = "mfo" -> aggregateMFO(docs, activeEngines)
    [] mth = "mbv" -> aggregateMBV(docs, activeEngines)
    [] mth = "owa" -> aggregateOWA(docs, activeEngines)
    [] mth = "biased" -> aggregateBiased(docs, sqm)
    [] OTHER -> aggregateBorda(docs)

\* const method = aggregation_method || "borda": absent, null and "" are falsy
Omitted == "<omitted>"
MethodOrDefault(aggregation_method) ==
  IF aggregation_method \in {Omitted, ""} THEN "borda" ELSE aggregation_method

\* engineResults.filter(er => er.results.length > 0).map(er => er.engine)
ActiveEngines(ers) ==
  LET keep == {i \in 1..Len(ers) : Len(ers[i].results) > 0}
      Nth[k \in 0..Cardinality(keep)] ==
        IF k = 0 THEN 0
        ELSE CHOOSE i \in keep :
               /\ i > Nth[k - 1]
               /\ \A j \in keep : j > Nth[k - 1] => i <= j
  IN  [k \in 1..Cardinality(keep) |-> ers[Nth[k]].engine]

----------------------------------------------------------------------------
(* The aggregation pipeline of the multi-search handler as pure functions:  *)
(* deduplicateResults, then rankResults, over bounded engine result lists.  *)

EngineNames == <<"google", "bing", "duckduckgo">>

Links == {<<"a">>, <<"A", "/", "/">>, <<"b">>}
Positions == {1, 2}
Titles == {<<"t">>}
Snippets == {<<"s">>}

SerpResults ==
  [position : Positions, title : Titles, link : Links, snippet : Snippets]

ResultLists == UNION {[1..k -> SerpResults] : k \in 0..MaxPerEngine}

NoError == "<none>"

EngineResultInputs ==
  {[i \in 1..Len(EngineNames) |->
      [engine |-> EngineNames[i], results |-> lists[i], error |-> NoError]] :
    lists \in {l \in [1..Len(EngineNames) -> ResultLists] :
                 Len(l[1]) + Len(l[2]) + Len(l[3]) <= MaxEntries}}

StrategyNames == {"borda", "shimura", "modal", "mfo", "mbv", "owa", "biased"}

RequestedMethods == StrategyNames \cup {"condorcet", "", Omitted}

SqmChoices ==
  {<<>>,
   "google" :> Rat(1, 2),
   ("google" :> Rat(-1, 1)) @@ ("bing" :> Rat(1, 3))}

FeedbackOff ==
  /\ session = <<>>
  /\ docImportance = <<>>
  /\ sqmResults = <<>>
  /\ sqmResponse = <<>>
  /\ learnDocs = <<>>
  /\ learnResponse = <<>>
  /\ search_quality_measures = <<>>
  /\ feedback_learning_index = <<>>
  /\ sqmCall = <<>>
  /\ learnCall = <<>>
  /\ observed = <<>>

\* the page is not part of the specification
PageOff ==
  /\ user_feedback = <<>>
  /\ trackCall = <<>>
  /\ clickCounter = 0
  /\ openTabs = <<>>
  /\ recorded = <<>>
  /\ prevHistoryIdRef = <<>>
  /\ searchPc = "off"
  /\ search_history = 0
  /\ events = <<>>

HandlerOff ==
  /\ hPc = "off"
  /\ request = <<>>
  /\ enginePromise = <<>>
  /\ learningResults = <<>>
  /\ response = <<>>

AggInit ==
  /\ PageOff
  /\ HandlerOff
  /\ FeedbackOff
  /\ aggPc = "input"
  /\ engineResults \in EngineResultInputs
  /\ deduplicated = <<>>
  /\ aggregationMethod = Omitted
  /\ sqmScores = <<>>
  /\ merged = <<>>

Deduplicate ==
  /\ aggPc = "input"
  /\ aggPc' = "deduped"
  /\ deduplicated' = deduplicateResults(engineResults)
  /\ UNCHANGED <<engineResults, aggregationMethod, sqmScores, merged, handlerVars, feedbackVars, pageVars>>

RankResults ==
  /\ aggPc = "deduped"
  /\ \E m \in RequestedMethods :
       \E sqm \in (IF m = "biased" THEN SqmChoices ELSE {<<>>}) :
         /\ aggregationMethod' = m
         /\ sqmScores' = sqm
         /\ merged' = rankResults(deduplicated, MethodOrDefault(m),
                                  ActiveEngines(engineResults), sqm)
  /\ aggPc' = "ranked"
  /\ UNCHANGED <<engineResults, deduplicated, handlerVars, feedbackVars, pageVars>>

AggNext == Deduplicate \/ RankResults

Init == AggInit

Next == AggNext

Spec == Init /\ [][Next]_vars

----------------------------------------------------------------------------
(* Claims about the aggregation pipeline *)

\* the (engine, result) pairs of the request in input order, for the claims
Entries == Flatten(engineResults)

\* u and v are the same URL up to trailing slashes and letter case, stated on the
\* characters: the parts before the trailing slashes have the same length and agree
\* position by position up to case
CoreLen(u) ==
  LET solid == {k \in 1..Len(u) : u[k] # "/"}
  IN  IF solid = {} THEN 0 ELSE CHOOSE k \in solid : \A l \in solid : l <= k

SameLetter(c, d) ==
  \/ c = d
  \/ {c, d} \in {{"a", "A"}, {"b", "B"}}

SameUrl(u, v) ==
  /\ CoreLen(u) = CoreLen(v)
  /\ \A k \in 1..CoreLen(u) : SameLetter(u[k], v[k])

\* the input positions whose link is seen there for the first time
FirstSeen == {i \in 1..Len(Entries) :
                \A j \in 1..(i - 1) : ~SameUrl(Entries[j].r.link, Entries[i].r.link)}

\* the engine/rank pairs of the input entries that are the document of link u
ReportsOf(u) ==
  LET same == {i \in 1..Len(Entries) : SameUrl(Entries[i].r.link, u)}
      Nth[k \in 0..Cardinality(same)] ==
        IF k = 0 THEN 0
        ELSE CHOOSE i \in same : i > Nth[k - 1] /\ \A j \in same : j > Nth[k - 1] => i <= j
  IN  [k \in 1..Cardinality(same) |->
         [engine |-> Entries[Nth[k]].engine, rank |-> Entries[Nth[k]].r.position]]

\* sum over the reports of a document of (N + 1 - rank), with N = 10
ExpectedBorda(doc) ==
  LET Points(e) == 11 - e.rank
  IN  Sum(ReportsOf(doc.url), Points)

IndexIn(docs, doc) == CHOOSE i \in 1..Len(docs) : docs[i] = doc

IsPermutation(out, in) ==
  /\ Len(out) = Len(in)
  /\ \A i \in 1..Len(in) :
       Cardinality({j \in 1..Len(out) : out[j] = in[i]})
         = Cardinality({j \in 1..Len(in) : in[j] = in[i]})

\* C1: under the borda strategy the output is the merged documents ordered by
\* non-increasing score, the score of a document being the sum over the engine
\* reports of it of (N + 1 - rank) with N = 10, and documents of equal score keep
\* their deduplication order.
C1_BordaOrder ==
  (aggPc = "ranked" /\ aggregationMethod = "borda") =>
    /\ IsPermutation(merged, deduplicated)
    /\ \A i, j \in 1..Len(merged) :
         i < j =>
           /\ ExpectedBorda(merged[i]) >= ExpectedBorda(merged[j])
           /\ ExpectedBorda(merged[i]) = ExpectedBorda(merged[j]) =>
                IndexIn(deduplicated, merged[i]) < IndexIn(deduplicated, merged[j])

\* a borda run in which a document reported by two engines overtakes an earlier one
\* and two documents tie
C1_Witness ==
  /\ aggPc = "ranked" /\ aggregationMethod = "borda"
  /\ Len(merged) = 2
  /\ merged # deduplicated
  /\ Len(merged[1].engines) = 2

\* a borda run with a tie between two documents
C1_WitnessTie ==
  /\ aggPc = "ranked" /\ aggregationMethod = "borda"
  /\ \E i, j \in 1..Len(merged) :
       i < j /\ ExpectedBorda(merged[i]) = ExpectedBorda(merged[j])

\* C2: deduplicateResults merges two entries iff their URLs are equal after
\* stripping trailing slashes and lower-casing: there is one merged document per
\* distinct normalized URL, in first-seen order, each carrying exactly the reports
\* of the entries with its URL, and an empty input gives an empty output.
C2_DedupByNormalizedUrl ==
  aggPc # "input" =>
    /\ Len(deduplicated) = Cardinality(FirstSeen)
    /\ \A k \in 1..Len(deduplicated) :
         /\ \E i \in FirstSeen :
              /\ Cardinality({j \in FirstSeen : j <= i}) = k
              /\ deduplicated[k].url = Entries[i].r.link
         /\ deduplicated[k].engines = ReportsOf(deduplicated[k].url)
    /\ (Len(Entries) = 0 => deduplicated = <<>>)

\* two entries whose URLs differ in case and trailing slashes were merged, and a
\* third entry became a second document
C2_Witness ==
  /\ aggPc = "deduped"
  /\ Len(deduplicated) = 2
  /\ \E k \in 1..2 :
       /\ Len(deduplicated[k].engines) = 2
       /\ \E i, j \in 1..Len(Entries) :
            /\ Entries[i].r.link # Entries[j].r.link
            /\ SameUrl(Entries[i].r.link, deduplicated[k].url)
            /\ SameUrl(Entries[j].r.link, deduplicated[k].url)

\* C3: a strategy name outside the seven, or an omitted one, gives exactly the
\* ordering of the borda strategy for the same documents.
C3_UnknownFallsBackToBorda ==
  (aggPc = "ranked" /\ aggregationMethod \notin StrategyNames) =>
    merged = rankResults(deduplicated, "borda", ActiveEngines(engineResults), sqmScores)

\* an unrecognized strategy name ranked two documents, and shimura would have
\* ordered them differently
C3_Witness ==
  /\ aggPc = "ranked"
  /\ aggregationMethod = "condorcet"
  /\ Len(merged) >= 2
  /\ merged # rankResults(deduplicated, "shimura", ActiveEngines(engineResults), sqmScores)

\* the strategy was omitted from the request and two documents were reordered
C3_WitnessOmitted ==
  /\ aggPc = "ranked"
  /\ aggregationMethod = Omitted
  /\ merged # deduplicated

----------------------------------------------------------------------------
(* The multi-search request handler (Deno.serve) *)

\* what fetch() and response.json() do for one engine
ApiItems ==
  {[position |-> 2, title |-> <<"t">>, link |-> <<"a">>, snippet |-> <<"s">>],
   [title |-> <<"t">>, link |-> <<"A", "/", "/">>],
   [position |-> 1, link |-> <<"b">>, snippet |-> <<"s">>]}

ApiBehaviours ==
  {[kind |-> "http", status |-> 500],
   [kind |-> "throw", isError |-> TRUE, message |-> "network down"],
   [kind |-> "throw", isError |-> FALSE],
   [kind |-> "json"]}
  \cup {[kind |-> "json", organic_results |-> l] :
          l \in UNION {[1..k -> ApiItems] : k \in 0..MaxOrganic}}

HttpErrorText(status) == IF status = 500 THEN "HTTP 500" ELSE "HTTP error"

\* (data.organic_results || []).map((r, i) => ({position: r.position ?? i + 1, ...}))
organicResults(data) ==
  LET raw == IF "organic_results" \in DOMAIN data THEN data.organic_results ELSE <<>>
  IN  [i \in 1..Len(raw) |->
         [position |-> IF "position" \in DOMAIN raw[i] THEN raw[i].position ELSE i,
          title |-> IF "title" \in DOMAIN raw[i] THEN raw[i].title ELSE EmptyString,
          link |-> IF "link" \in DOMAIN raw[i] THEN raw[i].link ELSE EmptyString,
          snippet |-> IF "snippet" \in DOMAIN raw[i] THEN raw[i].snippet ELSE EmptyString]]

\* mutant: the HTTP error branch returns the empty list without the error text
searchEngineSilent(engine, api) ==
  CASE api.kind = "http" ->
         [engine |-> engine, results |-> <<>>, error |-> NoError]
    [] api.kind = "throw" ->
         [engine |-> engine, results |-> <<>>,
          error |-> IF api.isError THEN api.message ELSE "Unknown error"]
    [] OTHER ->
         [engine |-> engine, results |-> organicResults(api), error |-> NoError]

searchEngine(engine, api) ==
  CASE api.kind = "http" ->
         [engine |-> engine, results |-> <<>>, error |-> HttpErrorText(api.status)]
    [] api.kind = "throw" ->
         [engine |-> engine, results |-> <<>>,
          error |-> IF api.isError THEN api.message ELSE "Unknown error"]
    [] OTHER ->
         [engine |-> engine, results |-> organicResults(api), error |-> NoError]

\* q.toLowerCase().split(/\s+/) on a query held as its sequence of words
LowerWord(w) ==
  CASE w = "Cats" -> "cats"
    [] w = "Dogs" -> "dogs"
    [] OTHER -> w

QueryWords(q) == {LowerWord(q[i]) : i \in 1..Len(q)}

LearnLimit == 20

\* .order("learned_score", {ascending: false}).limit(20)
selectLearned(table) ==
  LET Before(a, b) == RLess(b.learned_score, a.learned_score)
      sorted == Sort(table, Before)
  IN  SubSeq(sorted, 1, IF Len(sorted) < LearnLimit THEN Len(sorted) ELSE LearnLimit)

\* the rows whose query_matches share a word with the query, as SerpResults 1..k
learnedResults(data, trimmedQuery) ==
  LET queryWords == QueryWords(trimmedQuery)
      Matches(doc) ==
        \E k \in 1..Len(doc.query_matches) :
          QueryWords(doc.query_matches[k]) \cap queryWords # {}
      relevant == SelectSeq(data, Matches)
  IN  [i \in 1..Len(relevant) |->
         LET doc == relevant[i]
         IN  [position |-> i,
              title |-> IF doc.title # EmptyString THEN doc.title ELSE doc.url,
              link |-> doc.url,
              snippet |-> doc.snippet]]

\* for (const row of sqmRes.data) sqmScores[row.engine] = row.sqm_score
sqmScoresOf(rows) ==
  LET upTo[k \in 0..Len(rows)] ==
        IF k = 0 THEN <<>>
        ELSE (rows[k].engine :> rows[k].sqm_score) @@ upTo[k - 1]
  IN  upTo[Len(rows)]

RequestKinds == {"ok", "no-auth", "bad-token", "no-query", "long-query", "no-api-key"}

HandlerQuery == <<"Cats", "photos">>

HandlerMethods == {"shimura", "biased", Omitted}

Requests ==
  {[kind |-> k, query |-> HandlerQuery, aggregation_method |-> m] :
     k \in {"ok"}, m \in HandlerMethods}
  \cup {[kind |-> k, query |-> HandlerQuery, aggregation_method |-> Omitted] :
          k \in RequestKinds \ {"ok"}}

LearnedRowCats ==
  [url |-> <<"a", "/">>, title |-> EmptyString, snippet |-> EmptyString,
   learned_score |-> RInt(2), query_matches |-> <<<<"cats", "toys">>>>]
LearnedRowDogs ==
  [url |-> <<"b">>, title |-> <<"t">>, snippet |-> <<"s">>,
   learned_score |-> RInt(3), query_matches |-> <<<<"Dogs">>>>]

\* what the two parallel selects return: data, or null data on a database error
LearnedAnswers ==
  {[ok |-> FALSE, data |-> <<>>],
   [ok |-> TRUE, data |-> <<>>],
   [ok |-> TRUE, data |-> <<LearnedRowCats>>],
   [ok |-> TRUE, data |-> <<LearnedRowCats, LearnedRowDogs>>]}

SqmAnswers ==
  {[ok |-> TRUE, data |-> <<>>],
   [ok |-> TRUE, data |-> <<[engine |-> "google", sqm_score |-> Rat(1, 2)]>>]}

Pending == [state |-> "pending"]
\* a settled promise, with what the SerpAPI call did kept beside its value
Resolved(api, v) == [state |-> "resolved", api |-> api, value |-> v]

ErrorResponse(status, text) == [status |-> status, success |-> FALSE, error |-> text]

SearchInit ==
  /\ PageOff
  /\ FeedbackOff
  /\ hPc = "received"
  /\ request \in Requests
  /\ enginePromise = [i \in 1..Len(EngineNames) |-> Pending]
  /\ learningResults = [engine |-> "learned", results |-> <<>>, error |-> NoError]
  /\ response = <<>>
  /\ aggPc = "off"
  /\ engineResults = <<>>
  /\ deduplicated = <<>>
  /\ aggregationMethod = Omitted
  /\ sqmScores = <<>>
  /\ merged = <<>>

\* authentication and validation: the early returns of the handler
Validate ==
  /\ hPc = "received"
  /\ IF request.kind = "ok"
     THEN /\ hPc' = "searching"
          /\ aggregationMethod' = MethodOrDefault(request.aggregation_method)
          /\ UNCHANGED response
     ELSE /\ hPc' = "done"
          /\ response' =
               CASE request.kind = "no-auth" -> ErrorResponse(401, "Unauthorized")
                 [] request.kind = "bad-token" -> ErrorResponse(401, "Invalid authentication")
                 [] request.kind = "no-query" -> ErrorResponse(400, "Query is required")
                 [] request.kind = "long-query" ->
                      ErrorResponse(400, "Query too long (max 500 chars)")
                 [] OTHER -> ErrorResponse(500, "Search API not configured")
          /\ UNCHANGED aggregationMethod
  /\ UNCHANGED <<aggPc, engineResults, deduplicated, sqmScores, merged,
                 request, enginePromise, learningResults, feedbackVars, pageVars>>

\* one of the three searchEngine calls of Promise.all settles
SearchEngine(i) ==
  /\ hPc = "searching"
  /\ enginePromise[i] = Pending
  /\ \E api \in ApiBehaviours :
       enginePromise' = [enginePromise EXCEPT ![i] = Resolved(api, searchEngine(EngineNames[i], api))]
  /\ UNCHANGED <<aggVars, hPc, request, learningResults, response, feedbackVars, pageVars>>

\* the learning index and SQM selects, inside their own try/catch
Lookup ==
  /\ hPc = "searching"
  /\ \A i \in 1..Len(EngineNames) : enginePromise[i] # Pending
  /\ \/ \E learnedRes \in LearnedAnswers, sqmRes \in SqmAnswers :
          /\ learningResults' =
               IF learnedRes.ok /\ Len(learnedRes.data) > 0
               THEN [learningResults EXCEPT
                       !.results = learnedResults(selectLearned(learnedRes.data),
                                                  request.query)]
               ELSE learningResults
          /\ sqmScores' = IF sqmRes.ok THEN sqmScoresOf(sqmRes.data) ELSE sqmScores
     \/ \* createClient or a select throws: the catch logs and goes on
        UNCHANGED <<learningResults, sqmScores>>
  /\ hPc' = "ranking"
  /\ UNCHANGED <<aggPc, engineResults, deduplicated, aggregationMethod, merged,
                 request, enginePromise, response, feedbackVars, pageVars>>

\* deduplicate, rank and answer
Respond ==
  /\ hPc = "ranking"
  /\ LET three == [i \in 1..Len(EngineNames) |-> enginePromise[i].value]
         all == IF Len(learningResults.results) > 0
                THEN Append(three, learningResults) ELSE three
         docs == deduplicateResults(all)
         ranked == rankResults(docs, aggregationMethod, ActiveEngines(all), sqmScores)
     IN  /\ engineResults' = all
         /\ deduplicated' = docs
         /\ merged' = ranked
         /\ response' =
              [status |-> 200, success |-> TRUE, query |-> request.query,
               aggregation_method |-> aggregationMethod, merged |-> ranked,
               engineResults |->
                 [i \in 1..Len(all) |->
                    [engine |-> all[i].engine, count |-> Len(all[i].results),
                     error |-> all[i].error]]]
  /\ hPc' = "done"
  /\ UNCHANGED <<aggPc, aggregationMethod, sqmScores, request, enginePromise,
                 learningResults, feedbackVars, pageVars>>

SearchNext ==
  \/ Validate
  \/ \E i \in 1..Len(EngineNames) : SearchEngine(i)
  \/ Lookup
  \/ Respond

SpecSearch == SearchInit /\ [][SearchNext]_vars

----------------------------------------------------------------------------
(* Claims about the multi-search handler *)

EngineFailed(i) == enginePromise[i].api.kind \in {"http", "throw"}

\* the sources that returned at least one result, in the handler's order
ReturnedSources ==
  LET three == [i \in 1..Len(EngineNames) |-> enginePromise[i].value]
      all == IF Len(learningResults.results) > 0
             THEN Append(three, learningResults) ELSE three
      keep == {i \in 1..Len(all) : Len(all[i].results) > 0}
      Nth[k \in 0..Cardinality(keep)] ==
        IF k = 0 THEN 0
        ELSE CHOOSE i \in keep : i > Nth[k - 1] /\ \A j \in keep : j > Nth[k - 1] => i <= j
  IN  [k \in 1..Cardinality(keep) |-> all[Nth[k]]]

SourceNames(ers) == [k \in 1..Len(ers) |-> ers[k].engine]

\* a success response whose merged list is the deduplicated, ranked results of the
\* sources that returned results, and whose summary shows each failed engine
PartialSuccess ==
  /\ response.status = 200
  /\ response.success
  /\ response.merged =
       rankResults(deduplicateResults(ReturnedSources), aggregationMethod,
                   SourceNames(ReturnedSources), sqmScores)
  /\ \A i, j \in 1..Len(response.merged) :
       i # j => ~SameUrl(response.merged[i].url, response.merged[j].url)
  /\ \A i \in 1..Len(EngineNames) :
       EngineFailed(i) =>
         LET api == enginePromise[i].api
             line == response.engineResults[i]
         IN  /\ line.engine = EngineNames[i]
             /\ line.count = 0
             /\ line.error # NoError
             /\ api.kind = "http" /\ api.status = 500 => line.error = "HTTP 500"
             /\ api.kind = "throw" /\ api.isError => line.error = api.message

AllEnginesFailed == \A i \in 1..Len(EngineNames) : EngineFailed(i)

\* C9 as claimed: whatever fails, a valid request gets a success response with the
\* merged list of the engines that returned results and a summary naming each
\* failed engine with count 0 and its error; if every engine fails the merged
\* list is empty.
C9_AllFailedGivesEmptyList ==
  (hPc = "done" /\ request.kind = "ok") =>
    /\ PartialSuccess
    /\ AllEnginesFailed => response.merged = <<>>

\* C9 as amended: the same, except that when every engine fails the merged list is
\* what the learned source supplies, and is empty when that source has no result.
C9_DegradesToPartialResults ==
  (hPc = "done" /\ request.kind = "ok") =>
    /\ PartialSuccess
    /\ AllEnginesFailed =>
         /\ \A k \in 1..Len(response.merged) :
              SourceNames(response.merged[k].engines) = <<"learned">>
         /\ Len(learningResults.results) = 0 => response.merged = <<>>

\* two engines failed (an HTTP error and an exception), the third and the learned
\* source returned results, and the request was answered
C9_Witness ==
  /\ hPc = "done" /\ request.kind = "ok"
  /\ enginePromise[1].api.kind = "http"
  /\ enginePromise[2].api.kind = "throw"
  /\ ~EngineFailed(3)
  /\ Len(learningResults.results) > 0
  /\ Len(response.merged) = 2

\* every engine failed and the learned source alone supplied the merged list
C9_WitnessLearnedOnly ==
  /\ hPc = "done" /\ request.kind = "ok"
  /\ AllEnginesFailed
  /\ response.success
  /\ Len(response.merged) = 1
  /\ SourceNames(response.merged[1].engines) = <<"learned">>

\* every engine failed and the lookup found nothing: an empty success response
C9_WitnessAllFailed ==
  /\ hPc = "done" /\ request.kind = "ok"
  /\ AllEnginesFailed
  /\ response.success /\ response.merged = <<>>

----------------------------------------------------------------------------
(* compute-sqm and update-learning-index: importance I(d) of a session's    *)
(* documents.  A session is what the selects of the handlers return:        *)
(*   profile  - <<the seven weights, each a rational>>, or null,            *)
(*   results  - search_results rows [id, url, engine, original_rank, ...],  *)
(*   feedback - user_feedback rows,                                         *)
(*   query    - search_history.query as its sequence of words.              *)
(* A nullable click_order is <<>> for null and <<k>> for the value k.       *)

Null == <<>>
Coalesce(x, default) == IF x = Null THEN default ELSE x[1]

MaxOf(values, floor) ==
  LET all == values \cup {floor}
  IN  CHOOSE v \in all : \A w \in all : w <= v

\* new Map(feedbackRows.map(f => [f.search_result_id, f])).get(rid): the last row wins
FbGet(feedbackRows, rid) ==
  LET hits == {i \in 1..Len(feedbackRows) : feedbackRows[i].search_result_id = rid}
  IN  IF hits = {} THEN Null
      ELSE <<feedbackRows[CHOOSE i \in hits : \A j \in hits : j <= i]>>

\* Math.max(...feedbackRows.map(f => f.x ?? 0), 1) for the three normalization bounds
NormalizationBounds(feedbackRows) ==
  [maxClickOrder |->
     MaxOf({Coalesce(feedbackRows[i].click_order, 0) : i \in 1..Len(feedbackRows)}, 1),
   maxDwell |-> MaxOf({feedbackRows[i].dwell_time_ms : i \in 1..Len(feedbackRows)}, 1),
   maxCopy |-> MaxOf({feedbackRows[i].copy_paste_chars : i \in 1..Len(feedbackRows)}, 1)]

\* the feedback with the smallest click order among the rows of one document
BestFb(feedbackRows, resultIds) ==
  LET upTo[k \in 0..Len(resultIds)] ==
        IF k = 0 THEN Null
        ELSE LET fb == FbGet(feedbackRows, resultIds[k])
                 bestFb == upTo[k - 1]
             IN  IF fb # Null /\ (bestFb = Null
                                   \/ Coalesce(fb[1].click_order, 999)
                                        < Coalesce(bestFb[1].click_order, 999))
                 THEN fb ELSE bestFb
  IN  upTo[Len(resultIds)]

Bit(flag) == IF flag THEN 1 ELSE 0

sqmSignalsFromZero(bestFb, bounds) ==
  [V |-> IF Coalesce(bestFb.click_order, 0) # 0
         THEN RSub(RInt(1), Rat(bestFb.click_order[1], bounds.maxClickOrder))
         ELSE RInt(0),
   T |-> Rat(bestFb.dwell_time_ms, bounds.maxDwell),
   P |-> RInt(Bit(bestFb.printed)),
   S |-> RInt(Bit(bestFb.saved)),
   B |-> RInt(Bit(bestFb.bookmarked)),
   E |-> RInt(Bit(bestFb.emailed)),
   C |-> Rat(bestFb.copy_paste_chars, bounds.maxCopy)]

\* compute-sqm: the normalized signals of a feedback row
sqmSignals(bestFb, bounds) ==
  [V |-> IF Coalesce(bestFb.click_order, 0) # 0
         THEN RSub(RInt(1), Rat(bestFb.click_order[1] - 1, bounds.maxClickOrder))
         ELSE RInt(0),
   T |-> Rat(bestFb.dwell_time_ms, bounds.maxDwell),
   P |-> RInt(Bit(bestFb.printed)),
   S |-> RInt(Bit(bestFb.saved)),
   B |-> RInt(Bit(bestFb.bookmarked)),
   E |-> RInt(Bit(bestFb.emailed)),
   C |-> Rat(bestFb.copy_paste_chars, bounds.maxCopy)]

\* compute-sqm: I(d) of a feedback row
sqmImportance(profile, bestFb, bounds) ==
  LET x == sqmSignals(bestFb, bounds)
  IN  RAdd(RAdd(RAdd(RAdd(RAdd(RAdd(
        RMul(profile.weight_v, x.V),
        RMul(profile.weight_t, x.T)),
        RMul(profile.weight_p, x.P)),
        RMul(profile.weight_s, x.S)),
        RMul(profile.weight_b, x.B)),
        RMul(profile.weight_e, x.E)),
        RMul(profile.weight_c, x.C))

\* engineRanks.set(engine, rank) on a Map held as a sequence of [engine, rank]
MapSet(engineRanks, engine, rank) ==
  LET hits == {i \in 1..Len(engineRanks) : engineRanks[i].engine = engine}
  IN  IF hits = {} THEN Append(engineRanks, [engine |-> engine, rank |-> rank])
      ELSE [engineRanks EXCEPT ![CHOOSE i \in hits : TRUE].rank = rank]

MapHas(engineRanks, engine) ==
  \E i \in 1..Len(engineRanks) : engineRanks[i].engine = engine

MapGet(engineRanks, engine) ==
  engineRanks[CHOOSE i \in 1..Len(engineRanks) : engineRanks[i].engine = engine].rank

\* compute-sqm: group the result rows by normalized URL
sqmUrlMap(searchResults) ==
  LET upTo[k \in 0..Len(searchResults)] ==
        IF k = 0 THEN <<>>
        ELSE LET sr == searchResults[k]
                 normalized == NormalizeUrl(sr.url)
                 urlMap == upTo[k - 1]
                 at == MapIndex(urlMap, normalized)
             IN  IF at # 0
                 THEN [urlMap EXCEPT
                         ![at].doc.resultIds = Append(@, sr.id),
                         ![at].doc.engineRanks = MapSet(@, sr.engine, sr.original_rank)]
                 ELSE Append(urlMap,
                             [key |-> normalized,
                              doc |-> [url |-> sr.url, resultIds |-> <<sr.id>>,
                                       engineRanks |-> <<[engine |-> sr.engine,
                                                          rank |-> sr.original_rank]>>]])
  IN  upTo[Len(searchResults)]

\* compute-sqm: docImportance before it is sorted, one entry per document with feedback
sqmDocImportance(sess) ==
  LET urlMap == sqmUrlMap(sess.results)
      bounds == NormalizationBounds(sess.feedback)
      upTo[k \in 0..Len(urlMap)] ==
        IF k = 0 THEN <<>>
        ELSE LET doc == urlMap[k].doc
                 bestFb == BestFb(sess.feedback, doc.resultIds)
             IN  IF bestFb = Null THEN upTo[k - 1]
                 ELSE Append(upTo[k - 1],
                             [url |-> doc.url,
                              importance |-> sqmImportance(sess.profile[1], bestFb[1], bounds),
                              engineRanks |-> doc.engineRanks])
  IN  upTo[Len(urlMap)]

\* update-learning-index: the normalized signals of a feedback row
learnSignals(bestFb, bounds) ==
  [V |-> IF Coalesce(bestFb.click_order, 0) # 0
         THEN RSub(RInt(1), Rat(bestFb.click_order[1] - 1, bounds.maxClickOrder))
         ELSE RInt(0),
   T |-> Rat(bestFb.dwell_time_ms, bounds.maxDwell),
   P |-> RInt(Bit(bestFb.printed)),
   S |-> RInt(Bit(bestFb.saved)),
   B |-> RInt(Bit(bestFb.bookmarked)),
   E |-> RInt(Bit(bestFb.emailed)),
   C |-> Rat(bestFb.copy_paste_chars, bounds.maxCopy)]

\* update-learning-index: I(d) of a feedback row
learnImportance(profile, bestFb, bounds) ==
  LET x == learnSignals(bestFb, bounds)
  IN  RAdd(RAdd(RAdd(RAdd(RAdd(RAdd(
        RMul(profile.weight_v, x.V),
        RMul(profile.weight_t, x.T)),
        RMul(profile.weight_p, x.P)),
        RMul(profile.weight_s, x.S)),
        RMul(profile.weight_b, x.B)),
        RMul(profile.weight_e, x.E)),
        RMul(profile.weight_c, x.C))

\* update-learning-index: group the result rows by normalized URL
learnUrlResultMap(searchResults) ==
  LET upTo[k \in 0..Len(searchResults)] ==
        IF k = 0 THEN <<>>
        ELSE LET sr == searchResults[k]
                 normalized == NormalizeUrl(sr.url)
                 urlResultMap == upTo[k - 1]
                 at == MapIndex(urlResultMap, normalized)
             IN  IF at # 0
                 THEN [urlResultMap EXCEPT ![at].doc.resultIds = Append(@, sr.id)]
                 ELSE Append(urlResultMap,
                             [key |-> normalized,
                              doc |-> [url |-> sr.url, title |-> sr.title,
                                       snippet |-> sr.snippet, resultIds |-> <<sr.id>>]])
  IN  upTo[Len(searchResults)]

\* update-learning-index: the documents with feedback and their importance, in the
\* order of the loop over urlResultMap
learnDocImportance(sess) ==
  LET urlResultMap == learnUrlResultMap(sess.results)
      bounds == NormalizationBounds(sess.feedback)
      upTo[k \in 0..Len(urlResultMap)] ==
        IF k = 0 THEN <<>>
        ELSE LET doc == urlResultMap[k].doc
                 bestFb == BestFb(sess.feedback, doc.resultIds)
             IN  IF bestFb = Null THEN upTo[k - 1]
                 ELSE Append(upTo[k - 1],
                             [url |-> doc.url, title |-> doc.title, snippet |-> doc.snippet,
                              importance |-> learnImportance(sess.profile[1], bestFb[1], bounds)])
  IN  upTo[Len(urlResultMap)]

\* compute-sqm: docImportance.sort((a, b) => b.importance - a.importance)
SortByImportanceDesc(docs) ==
  LET Before(a, b) == RLess(b.importance, a.importance)
  IN  Sort(docs, Before)

\* compute-sqm: [...docsInEngine].sort by the engine's original_rank
SortByEngineRank(docs, engine) ==
  LET Before(a, b) == MapGet(a.engineRanks, engine) < MapGet(b.engineRanks, engine)
  IN  Sort(docs, Before)

\* the Map built by sorted.forEach((d, i) => map.set(normalize(d.url), i + 1)), read at key
RankMapGet(sorted, key, default) ==
  LET hits == {i \in 1..Len(sorted) : NormalizeUrl(sorted[i].url) = key}
  IN  IF hits = {} THEN default ELSE CHOOSE i \in hits : \A j \in hits : j <= i

\* engines.add(eng) for each key of one document's engineRanks
AddEngines(engines, engineRanks) ==
  LET upTo[k \in 0..Len(engineRanks)] ==
        IF k = 0 THEN engines
        ELSE LET seen == upTo[k - 1]
             IN  IF \E i \in 1..Len(seen) : seen[i] = engineRanks[k].engine
                 THEN seen ELSE Append(seen, engineRanks[k].engine)
  IN  upTo[Len(engineRanks)]

\* the engines Set: the engines of the documents in first-seen order
EnginesOf(ranked) ==
  LET upTo[k \in 0..Len(ranked)] ==
        IF k = 0 THEN <<>>
        ELSE AddEngines(upTo[k - 1], ranked[k].engineRanks)
  IN  upTo[Len(ranked)]

\* docImportance.filter(d => d.engineRanks.has(engine))
DocsInEngine(ranked, engine) ==
  LET upTo[k \in 0..Len(ranked)] ==
        IF k = 0 THEN <<>>
        ELSE IF MapHas(ranked[k].engineRanks, engine)
             THEN Append(upTo[k - 1], ranked[k]) ELSE upTo[k - 1]
  IN  upTo[Len(ranked)]

SumD2(docsInEngine, engineSorted, prefSorted) ==
  LET nDocs == Len(docsInEngine)
      upTo[k \in 0..nDocs] ==
        IF k = 0 THEN 0
        ELSE LET key == NormalizeUrl(docsInEngine[k].url)
                 eRank == RankMapGet(engineSorted, key, nDocs)
                 pRank == RankMapGet(prefSorted, key, nDocs)
             IN  upTo[k - 1] + (eRank - pRank) * (eRank - pRank)
  IN  upTo[nDocs]

\* rho = 1 - (6 * sumD2) / (nDocs * (nDocs ** 2 - 1))
SpearmanFlipped(nDocs, sumD2) ==
  RSub(Rat(6 * sumD2, nDocs * (nDocs * nDocs - 1)), RInt(1))

Spearman(nDocs, sumD2) ==
  RSub(RInt(1), Rat(6 * sumD2, nDocs * (nDocs * nDocs - 1)))

\* compute-sqm: rho of one engine over the documents it returned
EngineRho(ranked, engine) ==
  LET docsInEngine == DocsInEngine(ranked, engine)
      engineSorted == SortByEngineRank(docsInEngine, engine)
      prefSorted == SortByImportanceDesc(docsInEngine)
  IN  Spearman(Len(docsInEngine), SumD2(docsInEngine, engineSorted, prefSorted))

\* mutant: an engine with fewer than two of the documents is given rho = 0
sqmResultsOfDefaultRho(ranked) ==
  LET engines == EnginesOf(ranked)
  IN  [k \in 1..Len(engines) |->
         [engine |-> engines[k],
          rho |-> IF Len(DocsInEngine(ranked, engines[k])) < 2 THEN RInt(0)
                  ELSE EngineRho(ranked, engines[k])]]

\* compute-sqm: sqmResults from the sorted docImportance
sqmResultsOf(ranked) ==
  LET engines == EnginesOf(ranked)
      upTo[k \in 0..Len(engines)] ==
        IF k = 0 THEN <<>>
        ELSE IF Len(DocsInEngine(ranked, engines[k])) < 2 THEN upTo[k - 1]
             ELSE Append(upTo[k - 1],
                         [engine |-> engines[k],
                          rho |-> EngineRho(ranked, engines[k])])
  IN  upTo[Len(engines)]

----------------------------------------------------------------------------
(* learned_score is a JavaScript number and a FLOAT column: IEEE 754        *)
(* binary64, every operation rounded to nearest, ties to even.  A double is *)
(* [m, e], the value m * 2^e, with m = 0 or 2^52 <= m < 2^53.  m is a       *)
(* natural number held as its digits in base 2^13, least significant first, *)
(* since the integers of the model checker are 32 bits wide.  The scores    *)
(* stay far from the subnormal and the overflow range.  The importance of   *)
(* a document is computed exactly; it enters a learned_score as the double  *)
(* nearest to it, which is the number the handler holds whenever its own    *)
(* computation of the importance rounds nowhere.                            *)

Precision == 53    \* bits of the significand of a binary64

Digit(x) == x % 8192
Carried(x) == x \div 8192


DigitAt(a, k) == IF k >= 1 /\ k <= Len(a) THEN a[k] ELSE 0

\* the digits without leading zeros
Trim(a) ==
  LET used == {k \in 1..Len(a) : a[k] # 0}
  IN  IF used = {} THEN <<>>
      ELSE SubSeq(a, 1, CHOOSE k \in used : \A l \in used : l <= k)

\* the digits of the number whose columns are cols, a column may exceed the base
Propagate(cols) ==
  LET n == Len(cols) + 3
      upTo[k \in 0..n] ==
        IF k = 0 THEN [digits |-> <<>>, carry |-> 0]
        ELSE LET done == upTo[k - 1]
                 t == DigitAt(cols, k) + done.carry
             IN  [digits |-> Append(done.digits, Digit(t)), carry |-> Carried(t)]
  IN  Trim(upTo[n].digits)

LongerLen(a, b) == IF Len(a) < Len(b) THEN Len(b) ELSE Len(a)

NatAdd(a, b) == Propagate([k \in 1..LongerLen(a, b) |-> DigitAt(a, k) + DigitAt(b, k)])

NatMul(a, b) ==
  IF a = <<>> \/ b = <<>> THEN <<>>
  ELSE LET column(k) ==
             LET upTo[i \in 0..Len(a)] ==
                   IF i = 0 THEN 0 ELSE upTo[i - 1] + a[i] * DigitAt(b, k + 1 - i)
             IN  upTo[Len(a)]
       IN  Propagate([k \in 1..(Len(a) + Len(b) - 1) |-> column(k)])

\* a - b for a >= b
NatSub(a, b) ==
  LET upTo[k \in 0..Len(a)] ==
        IF k = 0 THEN [digits |-> <<>>, borrow |-> 0]
        ELSE LET done == upTo[k - 1]
                 t == a[k] - DigitAt(b, k) - done.borrow
             IN  [digits |-> Append(done.digits, Digit(t + 8192)),
                  borrow |-> IF t < 0 THEN 1 ELSE 0]
  IN  Trim(upTo[Len(a)].digits)

NatLess(a, b) ==
  \/ Len(a) < Len(b)
  \/ /\ Len(a) = Len(b)
     /\ \E k \in 1..Len(a) : a[k] < b[k] /\ \A l \in (k + 1)..Len(a) : a[l] = b[l]

BitLen(a) ==
  IF a = <<>> THEN 0
  ELSE 13 * (Len(a) - 1)
         + CHOOSE n \in 1..13 : 2^(n - 1) <= a[Len(a)] /\ a[Len(a)] < 2^n

\* a * 2^s
ShiftLeft(a, s) ==
  IF a = <<>> THEN <<>>
  ELSE [k \in 1..(s \div 13) |-> 0] \o NatMul(a, <<2^(s % 13)>>)

\* a \div 2^s
ShiftRight(a, s) ==
  LET q == s \div 13
      r == s % 13
      kept == IF Len(a) <= q THEN <<>> ELSE SubSeq(a, q + 1, Len(a))
  IN  Trim([k \in 1..Len(kept) |->
              (kept[k] \div 2^r) + (DigitAt(kept, k + 1) % 2^r) * 2^(13 - r)])

FZero == [m |-> <<>>, e |-> 0]

\* the double nearest to M * 2^E, ties to the even significand
RoundNat(M, E) ==
  IF M = <<>> THEN FZero
  ELSE IF BitLen(M) <= Precision
  THEN LET s == Precision - BitLen(M)
       IN  [m |-> ShiftLeft(M, s), e |-> E - s]
  ELSE LET s == BitLen(M) - Precision
           q == ShiftRight(M, s)
           r == NatSub(M, ShiftLeft(q, s))
           half == ShiftLeft(<<1>>, s - 1)
           up == NatLess(half, r) \/ (r = half /\ q[1] % 2 = 1)
           rounded == IF up THEN NatAdd(q, <<1>>) ELSE q
       IN  IF BitLen(rounded) > Precision
           THEN [m |-> ShiftRight(rounded, 1), e |-> E + s + 1]
           ELSE [m |-> rounded, e |-> E + s]

LowerExp(x, y) == IF x.e < y.e THEN x.e ELSE y.e

\* the significand of x at the exponent e <= x.e
Aligned(x, e) == ShiftLeft(x.m, x.e - e)

FMul(x, y) == RoundNat(NatMul(x.m, y.m), x.e + y.e)

\* x + y for x, y >= 0
FAdd(x, y) ==
  IF x.m = <<>> THEN y
  ELSE IF y.m = <<>> THEN x
  ELSE RoundNat(NatAdd(Aligned(x, LowerExp(x, y)), Aligned(y, LowerExp(x, y))),
                LowerExp(x, y))

\* x - y for x >= y >= 0
FSub(x, y) ==
  IF y.m = <<>> THEN x
  ELSE RoundNat(NatSub(Aligned(x, LowerExp(x, y)), Aligned(y, LowerExp(x, y))),
                LowerExp(x, y))

\* x < y for x, y >= 0
FLess(x, y) ==
  IF y.m = <<>> THEN FALSE
  ELSE IF x.m = <<>> THEN TRUE
  ELSE NatLess(Aligned(x, LowerExp(x, y)), Aligned(y, LowerExp(x, y)))

FLeq(x, y) == ~FLess(y, x)

\* the double nearest to n / d for small n >= 0 and d > 0: a number literal, or a
\* number that the handler computed without rounding.  n / d is brought into
\* [1, 2) by powers of two, then divided digit by digit.
ToDouble(n, d) ==
  IF n = 0 THEN FZero
  ELSE LET up == IF n >= d THEN 0
                 ELSE CHOOSE s \in 1..17 :
                        2^s >= (d + n - 1) \div n /\ 2^(s - 1) < (d + n - 1) \div n
           down == IF n < d THEN 0
                   ELSE CHOOSE t \in 0..17 : 2^t <= n \div d /\ n \div d < 2^(t + 1)
           num == n * 2^up
           den == d * 2^down
           upTo[k \in 0..4] ==
             IF k = 0 THEN [digits |-> <<1>>, r |-> num - den]
             ELSE LET done == upTo[k - 1]
                  IN  [digits |-> <<(done.r * 8192) \div den>> \o done.digits,
                       r |-> (done.r * 8192) % den]
           q == upTo[4].digits
           r == upTo[4].r
           roundUp == 2 * r > den \/ (2 * r = den /\ q[1] % 2 = 1)
           rounded == IF roundUp THEN NatAdd(q, <<1>>) ELSE q
           e == down - up - (Precision - 1)
       IN  IF BitLen(rounded) > Precision
           THEN [m |-> ShiftRight(rounded, 1), e |-> e + 1]
           ELSE [m |-> rounded, e |-> e]

----------------------------------------------------------------------------
(* The two tables the handlers write.  Neither has a unique constraint on   *)
(* (user_id, engine) or (user_id, url); the rows modelled are one user's.   *)

\* .select(...).eq("engine", engine).maybeSingle(): data is null unless exactly one row
sqmSelect(table, engine) ==
  LET hits == {i \in 1..Len(table) : table[i].engine = engine}
  IN  IF Cardinality(hits) = 1 THEN <<table[CHOOSE i \in hits : TRUE]>> ELSE Null

runningAverageByOldCount(existing, rho) ==
  [sqm_score |-> RAdd(existing.sqm_score,
                      RDiv(RSub(rho, existing.sqm_score), RInt(existing.query_count))),
   query_count |-> existing.query_count + 1]

\* newScore = existing.sqm_score + (rho - existing.sqm_score) / newCount
runningAverage(existing, rho) ==
  LET newCount == existing.query_count + 1
  IN  [sqm_score |-> RAdd(existing.sqm_score,
                          RDiv(RSub(rho, existing.sqm_score), RInt(newCount))),
       query_count |-> newCount]

\* the update by id of the row read, or the insert
sqmWrite(table, existing, engine, rho) ==
  IF existing # Null
  THEN LET new == runningAverage(existing[1], rho)
       IN  [i \in 1..Len(table) |->
              IF table[i].id = existing[1].id
              THEN [table[i] EXCEPT !.sqm_score = new.sqm_score,
                                    !.query_count = new.query_count]
              ELSE table[i]]
  ELSE Append(table, [id |-> Len(table) + 1, engine |-> engine,
                      sqm_score |-> rho, query_count |-> 1])

\* the upsert loop over sqmResults when no other invocation interleaves
sqmUpsertAll(table, results) ==
  LET upTo[k \in 0..Len(results)] ==
        IF k = 0 THEN table
        ELSE sqmWrite(upTo[k - 1], sqmSelect(upTo[k - 1], results[k].engine),
                      results[k].engine, results[k].rho)
  IN  upTo[Len(results)]

SqmReply(status, updated, message) ==
  [status |-> status, updated |-> updated, message |-> message]

\* compute-sqm from the selects of the session to the response
computeSqm(sess, table) ==
  LET quiet(reply) == [docImportance |-> <<>>, sqmResults |-> <<>>,
                       response |-> reply, table |-> table]
      unsorted == sqmDocImportance(sess)
      ranked == SortByImportanceDesc(unsorted)
      results == sqmResultsOf(ranked)
  IN  IF sess.profile = Null THEN quiet(SqmReply(404, 0, "Profile not found"))
      ELSE IF Len(sess.results) = 0 THEN quiet(SqmReply(200, 0, "No search results"))
      ELSE IF Len(sess.feedback) = 0
           THEN quiet(SqmReply(200, 0, "No feedback to compute SQM from"))
      ELSE IF Len(unsorted) < 2
           THEN [quiet(SqmReply(200, 0,
                   "Need at least 2 documents with feedback for Spearman correlation"))
                   EXCEPT !.docImportance = unsorted]
      ELSE [docImportance |-> ranked, sqmResults |-> results,
            response |-> SqmReply(200, Len(results), ""),
            table |-> sqmUpsertAll(table, results)]

\* .select(...).eq("url", doc.url).maybeSingle(): data is null unless exactly one row
learnSelect(table, url) ==
  LET hits == {i \in 1..Len(table) : table[i].url = url}
  IN  IF Cardinality(hits) = 1 THEN <<table[CHOOSE i \in hits : TRUE]>> ELSE Null

Includes(queries, queryText) == \E i \in 1..Len(queries) : queries[i] = queryText

\* a number the handler holds, as the double it is
Number(x) == ToDouble(x.n, x.d)

\* const alpha = 0.3
alpha == ToDouble(3, 10)

\* 1 - alpha
oneMinusAlpha == FSub(ToDouble(1, 1), alpha)

\* newScore = alpha * importance + (1 - alpha) * existing.learned_score
smooth(importance, old) == FAdd(FMul(alpha, importance), FMul(oneMinusAlpha, old))

learnWriteAlwaysPush(table, existing, doc, queryText) ==
  IF existing # Null
  THEN [i \in 1..Len(table) |->
          IF table[i].id = existing[1].id
          THEN [table[i] EXCEPT
                  !.learned_score = smooth(Number(doc.importance),
                                         existing[1].learned_score),
                  !.query_matches = Append(existing[1].query_matches, queryText),
                  !.title = doc.title,
                  !.snippet = doc.snippet]
          ELSE table[i]]
  ELSE Append(table, [id |-> Len(table) + 1, url |-> doc.url,
                      learned_score |-> Number(doc.importance),
                      title |-> doc.title, snippet |-> doc.snippet,
                      query_matches |-> <<queryText>>])

\* the update by id of the row read, or the insert
learnWrite(table, existing, doc, queryText) ==
  IF existing # Null
  THEN LET queries == existing[1].query_matches
       IN  [i \in 1..Len(table) |->
              IF table[i].id = existing[1].id
              THEN [table[i] EXCEPT
                      !.learned_score = smooth(Number(doc.importance),
                                             existing[1].learned_score),
                      !.query_matches = IF queryText # "" /\ ~Includes(queries, queryText)
                                        THEN Append(queries, queryText) ELSE queries,
                      !.title = doc.title,
                      !.snippet = doc.snippet]
              ELSE table[i]]
  ELSE Append(table, [id |-> Len(table) + 1, url |-> doc.url,
                      learned_score |-> Number(doc.importance),
                      title |-> doc.title, snippet |-> doc.snippet,
                      query_matches |-> IF queryText # "" THEN <<queryText>> ELSE <<>>])

PositiveOrZero(docs) ==
  LET keep(d) == RLeq(RInt(0), d.importance)
  IN  SelectSeq(docs, keep)

\* if (importance <= 0) continue
Positive(docs) ==
  LET keep(d) == RLess(RInt(0), d.importance)
  IN  SelectSeq(docs, keep)

\* the upsert loop over the documents when no other invocation interleaves
learnUpsertAll(table, docs, queryText) ==
  LET upTo[k \in 0..Len(docs)] ==
        IF k = 0 THEN table
        ELSE learnWrite(upTo[k - 1], learnSelect(upTo[k - 1], docs[k].url),
                        docs[k], queryText)
  IN  upTo[Len(docs)]

LearnReply(status, updated) == [status |-> status, updated |-> updated]

\* update-learning-index from the selects of the session to the response
updateLearningIndex(sess, table) ==
  LET quiet(reply) == [learnDocs |-> <<>>, response |-> reply, table |-> table]
      docs == learnDocImportance(sess)
  IN  IF sess.profile = Null THEN quiet(LearnReply(404, 0))
      ELSE IF Len(sess.results) = 0 \/ Len(sess.feedback) = 0
           THEN quiet(LearnReply(200, 0))
      ELSE [learnDocs |-> docs,
            response |-> LearnReply(200, Len(Positive(docs))),
            table |-> learnUpsertAll(table, Positive(docs), sess.query)]

----------------------------------------------------------------------------
(* Specification SpecScore: one session, each handler called once on it.    *)
(* The session is what Index.tsx stores for one search: per merged document *)
(* one search_results row per engine that returned it, all with the merged  *)
(* document's URL, and the feedback of a document on its first row          *)
(* (SearchResultCard: Object.values(result.resultIds)[0]).                  *)

MaxRank == 3    \* native ranks 1..MaxRank

SessionUrls == << <<"a">>, <<"B", "/">>, <<"a", "b">> >>

SessionDocs == DOMAIN SessionUrls

Weights(v, t, p, s, b, e, c) ==
  [weight_v |-> v, weight_t |-> t, weight_p |-> p, weight_s |-> s,
   weight_b |-> b, weight_e |-> e, weight_c |-> c]

UnitWeights == Weights(RInt(1), RInt(1), RInt(1), RInt(1), RInt(1), RInt(1), RInt(1))

\* the settings sliders give weights 0, 0.1, ..., 2
MixedWeights ==
  Weights(Rat(1, 2), RInt(2), RInt(0), RInt(1), Rat(3, 10), RInt(0), Rat(1, 10))

ZeroWeights == Weights(RInt(0), RInt(0), RInt(0), RInt(0), RInt(0), RInt(0), RInt(0))

Feedback(click, dwell, printed, saved, bookmarked, emailed, copy) ==
  [click_order |-> click, dwell_time_ms |-> dwell, printed |-> printed, saved |-> saved,
   bookmarked |-> bookmarked, emailed |-> emailed, copy_paste_chars |-> copy]

FeedbackPalette ==
  << Feedback(<<1>>, 5000, FALSE, TRUE, FALSE, FALSE, 0),
     Feedback(<<2>>, 2500, FALSE, FALSE, FALSE, FALSE, 7),
     Feedback(Null, 0, FALSE, FALSE, FALSE, TRUE, 14),
     Feedback(<<3>>, 1000, TRUE, FALSE, TRUE, FALSE, 0),
     Feedback(Null, 0, FALSE, FALSE, FALSE, FALSE, 0) >>

\* A document's shape: its native rank in google and in bing (0: not returned) and
\* the palette entry of its feedback (0: none).
Shape(google, bing, fb) == [google |-> google, bing |-> bing, fb |-> fb]

Absent == Shape(0, 0, 0)

\* the shapes that vary the native ranks: bing returns the first two documents at
\* most, only the last document may lack feedback
RankShapes(d) ==
  LET last == d = Len(SessionUrls)
      returned == {Shape(g, b, fb) : g \in 0..MaxRank,
                                     b \in IF last THEN {0} ELSE {0, 1},
                                     fb \in IF last THEN {0, 1, 2, 3} ELSE {1, 2, 3}}
  IN  {Absent} \cup {c \in returned : c.google # 0 \/ c.bing # 0}

\* the shapes that vary the feedback: google returned the documents in order
SignalShapes(d) == {Shape(d, 0, fb) : fb \in 0..Len(FeedbackPalette)}

\* clickOrderRef counts up: two documents of a session never share a click order
ClicksDistinct(shape) ==
  \A d, e \in SessionDocs :
     (d # e /\ shape[d].fb # 0 /\ shape[d].fb = shape[e].fb)
        => FeedbackPalette[shape[d].fb].click_order = Null

RowId(d, engine) == IF engine = "google" THEN 2 * d - 1 ELSE 2 * d

ResultRow(urls, d, engine, rank) ==
  [id |-> RowId(d, engine), url |-> urls[d], engine |-> engine,
   original_rank |-> rank, title |-> <<"t">>, snippet |-> <<"s">>]

RowsOf(urls, shape) ==
  LET all == [k \in 1..(2 * Len(urls)) |->
                LET d == (k + 1) \div 2
                IN  IF k % 2 = 1 THEN ResultRow(urls, d, "google", shape[d].google)
                    ELSE ResultRow(urls, d, "bing", shape[d].bing)]
      present(row) == row.original_rank # 0
  IN  SelectSeq(all, present)

FirstRowId(shape, d) == IF shape[d].google # 0 THEN RowId(d, "google") ELSE RowId(d, "bing")

FeedbackOf(shape) ==
  LET all == [d \in 1..Len(SessionUrls) |->
                IF shape[d].fb = 0 THEN [search_result_id |-> 0]
                ELSE [search_result_id |-> FirstRowId(shape, d)]
                       @@ FeedbackPalette[shape[d].fb]]
      present(row) == row.search_result_id # 0
  IN  SelectSeq(all, present)

SessionWith(urls, profile, shape, query) ==
  [profile |-> profile, results |-> RowsOf(urls, shape), feedback |-> FeedbackOf(shape),
   query |-> query]

SessionOf(profile, shape, query) == SessionWith(SessionUrls, profile, shape, query)

ShapesOver(shapes(_)) ==
  {<<x, y, z>> : x \in shapes(1), y \in shapes(2), z \in shapes(3)}

Sessions ==
  {SessionOf(<<UnitWeights>>, shape, "cats") :
     shape \in {c \in ShapesOver(RankShapes) : ClicksDistinct(c)}}
  \cup {SessionOf(<<p>>, shape, "cats") :
          p \in {MixedWeights, ZeroWeights},
          shape \in {c \in ShapesOver(SignalShapes) : ClicksDistinct(c)}}
  \cup {SessionOf(Null, <<Shape(1, 0, 1), Shape(2, 0, 2), Absent>>, "cats")}

NoReply == [status |-> 0]

ScoreInit ==
  /\ PageOff
  /\ HandlerOff
  /\ aggPc = "off"
  /\ engineResults = <<>>
  /\ deduplicated = <<>>
  /\ aggregationMethod = Omitted
  /\ sqmScores = <<>>
  /\ merged = <<>>
  /\ session \in Sessions
  /\ docImportance = <<>>
  /\ sqmResults = <<>>
  /\ sqmResponse = NoReply
  /\ learnDocs = <<>>
  /\ learnResponse = NoReply
  /\ search_quality_measures = <<>>
  /\ feedback_learning_index = <<>>
  /\ sqmCall = <<>>
  /\ learnCall = <<>>
  /\ observed = <<>>

\* compute-sqm is called for the session
ComputeSqm ==
  /\ sqmResponse = NoReply
  /\ LET run == computeSqm(session, search_quality_measures)
     IN  /\ docImportance' = run.docImportance
         /\ sqmResults' = run.sqmResults
         /\ sqmResponse' = run.response
         /\ search_quality_measures' = run.table
  /\ UNCHANGED <<aggVars, handlerVars, pageVars, session, learnDocs, learnResponse,
                 feedback_learning_index, callVars>>

\* update-learning-index is called for the session
UpdateLearningIndex ==
  /\ learnResponse = NoReply
  /\ LET run == updateLearningIndex(session, feedback_learning_index)
     IN  /\ learnDocs' = run.learnDocs
         /\ learnResponse' = run.response
         /\ feedback_learning_index' = run.table
  /\ UNCHANGED <<aggVars, handlerVars, pageVars, session, docImportance, sqmResults, sqmResponse,
                 search_quality_measures, callVars>>

ScoreNext == ComputeSqm \/ UpdateLearningIndex

SpecScore == ScoreInit /\ [][ScoreNext]_vars

----------------------------------------------------------------------------
(* Claims about the importance score and the Spearman correlation *)

SqmDone == sqmResponse # NoReply

LearnDone == learnResponse # NoReply

\* the search_results row a feedback row is attached to
RowOf(f) ==
  session.results[CHOOSE i \in 1..Len(session.results) :
                    session.results[i].id = f.search_result_id]

\* the session maximum of a signal, floored at 1
SessionMax(value(_)) ==
  LET seen == {value(session.feedback[i]) : i \in 1..Len(session.feedback)}
  IN  IF \A v \in seen : v <= 1 THEN 1
      ELSE CHOOSE m \in seen : \A v \in seen : v <= m

ClickOf(f) == IF f.click_order = Null THEN 0 ELSE f.click_order[1]
DwellOf(f) == f.dwell_time_ms
CopyOf(f) == f.copy_paste_chars

\* a rational weight with one decimal, in tenths
Tenths(w) == (w.n * 10) \div w.d

\* I(d) of a feedback row as one fraction over 10 * maxClickOrder * maxDwell * maxCopy
ExpectedImportance(f) ==
  LET w == session.profile[1]
      mv == SessionMax(ClickOf)
      mt == SessionMax(DwellOf)
      mc == SessionMax(CopyOf)
      flags == Tenths(w.weight_p) * Bit(f.printed) + Tenths(w.weight_s) * Bit(f.saved)
                 + Tenths(w.weight_b) * Bit(f.bookmarked)
                 + Tenths(w.weight_e) * Bit(f.emailed)
      v == IF f.click_order = Null THEN 0 ELSE mv - f.click_order[1] + 1
  IN  Rat(Tenths(w.weight_v) * v * mt * mc + Tenths(w.weight_t) * f.dwell_time_ms * mv * mc
            + flags * mv * mt * mc + Tenths(w.weight_c) * f.copy_paste_chars * mv * mt,
          10 * mv * mt * mc)

InUnit(x) == RLeq(RInt(0), x) /\ RLeq(x, RInt(1))

\* the signals as the claim states them
SignalsAsStated(x, f) ==
  /\ InUnit(x.V) /\ InUnit(x.T) /\ InUnit(x.C)
  /\ x.V = IF f.click_order = Null THEN RInt(0)
           ELSE Rat(SessionMax(ClickOf) - f.click_order[1] + 1, SessionMax(ClickOf))
  /\ x.T = Rat(f.dwell_time_ms, SessionMax(DwellOf))
  /\ x.C = Rat(f.copy_paste_chars, SessionMax(CopyOf))
  /\ x.P = RInt(Bit(f.printed)) /\ x.S = RInt(Bit(f.saved))
  /\ x.B = RInt(Bit(f.bookmarked)) /\ x.E = RInt(Bit(f.emailed))

\* the importance a handler's list holds for the document of URL u
ImportanceIn(docs, u) ==
  docs[CHOOSE i \in 1..Len(docs) : SameUrl(docs[i].url, u)].importance

Scored(docs, u) == \E i \in 1..Len(docs) : SameUrl(docs[i].url, u)

C10_WitnessFractions ==
  /\ SqmDone /\ LearnDone
  /\ session.profile = <<MixedWeights>>
  /\ \E i \in 1..Len(session.feedback) :
        LET f == session.feedback[i]
        IN  /\ f.click_order = <<2>> /\ SessionMax(ClickOf) = 3
            /\ ImportanceIn(docImportance, RowOf(f).url) = ExpectedImportance(f)
            /\ ImportanceIn(docImportance, RowOf(f).url).d > 1

\* the document of a search_results row has feedback
HasFeedback(row) ==
  \E i \in 1..Len(session.feedback) : SameUrl(RowOf(session.feedback[i]).url, row.url)

\* the rows of an engine whose documents have feedback: the subset rho is computed on
SubsetOf(engine) ==
  LET inSubset(row) == row.engine = engine /\ HasFeedback(row)
  IN  SelectSeq(session.results, inSubset)

ImportanceOf(row) == ImportanceIn(docImportance, row.url)

\* 1-based ranks within a subset without ties
NativeRank(rows, row) ==
  1 + Cardinality({i \in 1..Len(rows) : rows[i].original_rank < row.original_rank})

PreferenceRank(rows, row) ==
  1 + Cardinality({i \in 1..Len(rows) : RLess(ImportanceOf(row), ImportanceOf(rows[i]))})

NoTies(rows) ==
  \A i, j \in 1..Len(rows) :
     i # j => /\ rows[i].original_rank # rows[j].original_rank
              /\ ImportanceOf(rows[i]) # ImportanceOf(rows[j])

SumOfSquaredDifferences(rows) ==
  LET d2(row) == (NativeRank(rows, row) - PreferenceRank(rows, row))
                   * (NativeRank(rows, row) - PreferenceRank(rows, row))
  IN  Sum(rows, d2)

\* the native order and the preference order of the subset are the same order
OrdersCoincide(rows) ==
  \A i, j \in 1..Len(rows) :
     rows[i].original_rank < rows[j].original_rank
       <=> RLess(ImportanceOf(rows[j]), ImportanceOf(rows[i]))

\* the native order is the preference order read backwards
OrdersReversed(rows) ==
  /\ \A i, j \in 1..Len(rows) : i # j => rows[i].original_rank # rows[j].original_rank
  /\ \A i, j \in 1..Len(rows) :
        rows[i].original_rank < rows[j].original_rank
          <=> RLess(ImportanceOf(rows[i]), ImportanceOf(rows[j]))

RhosOf(engine) == {i \in 1..Len(sqmResults) : sqmResults[i].engine = engine}

RhoOf(engine) == sqmResults[CHOOSE i \in RhosOf(engine) : TRUE].rho

Scoring == SqmDone /\ sqmResponse.status = 200 /\ Len(docImportance) >= 2

\* C4: compute-sqm reports one rho for every engine with n >= 2 documents that have
\* feedback and none for the other engines; rho is 1 - 6*sum(d^2)/(n*(n^2-1)) over
\* the ranks 1..n by native rank and 1..n by descending importance, lies in [-1,1]
\* also with ties, is 1 when the two orders coincide and is -1 when one is the
\* reverse of the other for n = 3.
C4_SpearmanAsStated ==
  Scoring =>
    \A e \in 1..Len(EngineNames) :
       LET engine == EngineNames[e]
           rows == SubsetOf(engine)
           n == Len(rows)
       IN  IF n < 2 THEN RhosOf(engine) = {}
           ELSE /\ Cardinality(RhosOf(engine)) = 1
                /\ RLeq(RInt(-1), RhoOf(engine)) /\ RLeq(RhoOf(engine), RInt(1))
                /\ NoTies(rows) =>
                     RhoOf(engine) = Rat(n * (n * n - 1) - 6 * SumOfSquaredDifferences(rows),
                                         n * (n * n - 1))
                /\ OrdersCoincide(rows) => RhoOf(engine) = RInt(1)
                /\ n = 3 /\ OrdersReversed(rows) => RhoOf(engine) = RInt(-1)

\* an engine's three documents are preferred in exactly the reverse of its order
C4_Witness ==
  /\ Scoring
  /\ Len(SubsetOf("google")) = 3 /\ OrdersReversed(SubsetOf("google"))
  /\ RhoOf("google") = RInt(-1)

\* rho has been computed on a subset with a tie in the native ranks and on one with
\* a tie in the importances
C4_WitnessTies ==
  /\ Scoring
  /\ Len(SubsetOf("bing")) = 2 /\ RhosOf("bing") # {}
  /\ SubsetOf("bing")[1].original_rank = SubsetOf("bing")[2].original_rank
  /\ Len(SubsetOf("google")) = 2 /\ RhosOf("google") # {}
  /\ ImportanceOf(SubsetOf("google")[1]) = ImportanceOf(SubsetOf("google")[2])

\* the orders coincide on three documents; bing returned one of them and gets no rho
C4_WitnessCoincide ==
  /\ Scoring
  /\ Len(SubsetOf("google")) = 3 /\ NoTies(SubsetOf("google"))
  /\ OrdersCoincide(SubsetOf("google"))
  /\ RhoOf("google") = RInt(1)
  /\ Len(SubsetOf("bing")) = 1 /\ RhosOf("bing") = {}

\* a rho strictly between -1 and 1
C4_WitnessBetween ==
  /\ Scoring
  /\ RhosOf("google") # {}
  /\ RhoOf("google") \in {Rat(1, 2), Rat(-1, 2)}

----------------------------------------------------------------------------
(* Specifications SpecSqm and SpecSqmSequential: invocations of compute-sqm *)
(* against the search_quality_measures table.  An invocation suspends at    *)
(* every await of its upsert loop: once at the select, once at the write.   *)
(* In SpecSqm invocations overlap; in SpecSqmSequential a new one starts    *)
(* only after the earlier ones have answered.                               *)

MaxCalls == 3              \* invocations of compute-sqm that may overlap
MaxSequentialCalls == 4    \* invocations of compute-sqm one after the other

SqmEngines == {"google", "bing"}

\* sessions for rho = 1 on both engines, rho = -1 on google with one document on
\* bing, rho = 1/2, and a session with feedback on one document only
CallShapes ==
  { <<Shape(1, 1, 1), Shape(2, 1, 2), Absent>>,
    <<Shape(2, 1, 1), Shape(1, 0, 2), Absent>>,
    <<Shape(1, 0, 1), Shape(2, 0, 2), Shape(3, 0, 3)>>,
    <<Shape(1, 0, 1), Shape(2, 0, 0), Absent>> }

CallSessions == {SessionOf(<<UnitWeights>>, shape, "cats") : shape \in CallShapes}

SqmInit ==
  /\ PageOff
  /\ HandlerOff
  /\ aggPc = "off"
  /\ engineResults = <<>>
  /\ deduplicated = <<>>
  /\ aggregationMethod = Omitted
  /\ sqmScores = <<>>
  /\ merged = <<>>
  /\ session = <<>>
  /\ docImportance = <<>>
  /\ sqmResults = <<>>
  /\ sqmResponse = NoReply
  /\ learnDocs = <<>>
  /\ learnResponse = NoReply
  /\ search_quality_measures = <<>>
  /\ feedback_learning_index = <<>>
  /\ sqmCall = <<>>
  /\ learnCall = <<>>
  /\ observed = [engine \in SqmEngines |-> <<>>]

Answered(c) == sqmCall[c].pc = "done"

\* an invocation reads its session and computes sqmResults
StartCall(sess, limit) ==
  LET run == computeSqm(sess, <<>>)
  IN  /\ Len(sqmCall) < limit
      /\ sqmCall' = Append(sqmCall,
                           [session |-> sess,
                            pc |-> IF run.sqmResults = <<>> THEN "done" ELSE "select",
                            todo |-> run.sqmResults, existing |-> Null,
                            response |-> run.response])
      /\ UNCHANGED <<aggVars, handlerVars, pageVars, scoreVars, tableVars, learnCall, observed>>

SqmStart == \E sess \in CallSessions : StartCall(sess, MaxCalls)

SqmStartSequential ==
  /\ \A c \in 1..Len(sqmCall) : Answered(c)
  /\ \E sess \in CallSessions : StartCall(sess, MaxSequentialCalls)

\* await supabase.from("search_quality_measures").select(...).maybeSingle()
SqmSelect(c) ==
  /\ sqmCall[c].pc = "select"
  /\ sqmCall' = [sqmCall EXCEPT
                   ![c].existing = sqmSelect(search_quality_measures, sqmCall[c].todo[1].engine),
                   ![c].pc = "write"]
  /\ UNCHANGED <<aggVars, handlerVars, pageVars, scoreVars, tableVars, learnCall, observed>>

\* await supabase.from("search_quality_measures").update(...) or .insert(...)
SqmWrite(c) ==
  /\ sqmCall[c].pc = "write"
  /\ LET engine == sqmCall[c].todo[1].engine
         rho == sqmCall[c].todo[1].rho
     IN  /\ search_quality_measures' =
               sqmWrite(search_quality_measures, sqmCall[c].existing, engine, rho)
         /\ observed' = [observed EXCEPT ![engine] = Append(@, rho)]
  /\ sqmCall' = [sqmCall EXCEPT
                   ![c].todo = Tail(@),
                   ![c].existing = Null,
                   ![c].pc = IF Len(sqmCall[c].todo) = 1 THEN "done" ELSE "select"]
  /\ UNCHANGED <<aggVars, handlerVars, pageVars, scoreVars, feedback_learning_index, learnCall>>

SqmNext ==
  \/ SqmStart
  \/ \E c \in 1..Len(sqmCall) : SqmSelect(c)
  \/ \E c \in 1..Len(sqmCall) : SqmWrite(c)

SqmNextSequential ==
  \/ SqmStartSequential
  \/ \E c \in 1..Len(sqmCall) : SqmSelect(c)
  \/ \E c \in 1..Len(sqmCall) : SqmWrite(c)

SpecSqm == SqmInit /\ [][SqmNext]_vars

SpecSqmSequential == SqmInit /\ [][SqmNextSequential]_vars

----------------------------------------------------------------------------
(* Claims about the running average of rho *)

RecordsOf(engine) ==
  {i \in 1..Len(search_quality_measures) : search_quality_measures[i].engine = engine}

RecordOf(engine) == search_quality_measures[CHOOSE i \in RecordsOf(engine) : TRUE]

\* the first observation, then old + (rho - old) / newCount for each later one
StatedAverage(log) ==
  LET avg[k \in 1..Len(log)] ==
        IF k = 1 THEN log[1]
        ELSE RAdd(avg[k - 1], RDiv(RSub(log[k], avg[k - 1]), RInt(k)))
  IN  avg[Len(log)]

RatSum(log) ==
  LET upTo[k \in 0..Len(log)] == IF k = 0 THEN RInt(0) ELSE RAdd(upTo[k - 1], log[k])
  IN  upTo[Len(log)]

AllEqual(log) == \A k \in 1..Len(log) : log[k] = log[1]

\* C5: with invocations one after the other and no record at the start, the first
\* observation of an engine stores sqm_score = rho and query_count = 1, every later
\* one stores old + (rho - old)/newCount and query_count + 1; so the record holds the
\* mean of the observations, and after k observations of the same x it holds x and k.
C5_SequentialRunningAverage ==
  \A engine \in SqmEngines :
     LET log == observed[engine]
     IN  IF log = <<>> THEN RecordsOf(engine) = {}
         ELSE /\ Cardinality(RecordsOf(engine)) = 1
              /\ RecordOf(engine).query_count = Len(log)
              /\ RecordOf(engine).sqm_score = StatedAverage(log)
              /\ RMul(RecordOf(engine).sqm_score, RInt(Len(log))) = RatSum(log)
              /\ AllEqual(log) => RecordOf(engine).sqm_score = log[1]

\* three sequential observations of the same rho
C5_Witness ==
  /\ Len(observed["google"]) = 3
  /\ AllEqual(observed["google"])
  /\ \A c \in 1..Len(sqmCall) : Answered(c)
  /\ RecordOf("google").query_count = 3
  /\ RecordOf("google").sqm_score = observed["google"][1]

\* three sequential observations of three different rhos
C5_WitnessMixed ==
  /\ Len(observed["google"]) = 3
  /\ Cardinality({observed["google"][k] : k \in 1..3}) = 3
  /\ \A c \in 1..Len(sqmCall) : Answered(c)
  /\ RecordOf("google").sqm_score = Rat(1, 6)

AllAnswered == \A c \in 1..Len(sqmCall) : Answered(c)

\* C8: when invocations of compute-sqm overlap, once they have answered there is one
\* record per engine observed, its query_count is the number of observations and its
\* sqm_score their running average.
C8_OverlappingUpdatesAtomic ==
  AllAnswered =>
    \A engine \in SqmEngines :
       observed[engine] # <<>> =>
         /\ Cardinality(RecordsOf(engine)) = 1
         /\ RecordOf(engine).query_count = Len(observed[engine])
         /\ RMul(RecordOf(engine).sqm_score, RInt(Len(observed[engine])))
              = RatSum(observed[engine])

\* two overlapping invocations have both inserted a record for the same engine
C8_TwoRecords ==
  /\ Len(sqmCall) = 2 /\ AllAnswered
  /\ Cardinality(RecordsOf("google")) = 2

\* an observation is lost: three observations, one record, query_count 2
C8_LostUpdate ==
  /\ AllAnswered
  /\ Len(observed["google"]) = 3
  /\ Cardinality(RecordsOf("google")) = 1
  /\ RecordOf("google").query_count = 2

----------------------------------------------------------------------------
(* Specification SpecLearn: update-learning-index is called for one session *)
(* after the other against the feedback_learning_index table.  The sessions *)
(* have unit weights and signals that are halves, so the handler computes   *)
(* their importance without rounding.  Between sessions the same document   *)
(* may come back under a URL that differs in case or in a trailing slash.   *)

MaxLearnCalls == 3    \* invocations of update-learning-index

OtherUrls == << <<"A", "/">>, <<"b">>, <<"a", "b">> >>

\* one document of importance 3, the same document with importance 5/2, and three
\* documents of importance 2, 3 and 0
ClickedAndSaved == <<Shape(1, 0, 1), Absent, Absent>>
ClickedSecond == <<Shape(1, 0, 2), Absent, Absent>>
ThreeDocuments == <<Shape(1, 0, 3), Shape(2, 0, 1), Shape(3, 0, 5)>>

LearnSessions ==
  {SessionWith(SessionUrls, <<UnitWeights>>, shape, "cats") :
     shape \in {ClickedAndSaved, ClickedSecond, ThreeDocuments}}
  \cup {SessionWith(OtherUrls, <<UnitWeights>>, shape, "cats") :
          shape \in {ClickedAndSaved, ThreeDocuments}}
  \cup {SessionWith(SessionUrls, <<UnitWeights>>, shape, "dogs") :
          shape \in {ClickedAndSaved, ClickedSecond}}
  \cup {SessionWith(SessionUrls, <<ZeroWeights>>, ClickedAndSaved, "cats")}
  \cup {SessionWith(SessionUrls, <<UnitWeights>>, ClickedSecond, "")}

LearnInit ==
  /\ PageOff
  /\ HandlerOff
  /\ aggPc = "off"
  /\ engineResults = <<>>
  /\ deduplicated = <<>>
  /\ aggregationMethod = Omitted
  /\ sqmScores = <<>>
  /\ merged = <<>>
  /\ session = <<>>
  /\ docImportance = <<>>
  /\ sqmResults = <<>>
  /\ sqmResponse = NoReply
  /\ learnDocs = <<>>
  /\ learnResponse = NoReply
  /\ search_quality_measures = <<>>
  /\ feedback_learning_index = <<>>
  /\ sqmCall = <<>>
  /\ learnCall = 0
  /\ observed = <<>>

\* update-learning-index is called for a session and answers
LearnSession(sess) ==
  /\ learnCall < MaxLearnCalls
  /\ learnCall' = learnCall + 1
  /\ session' = sess
  /\ LET run == updateLearningIndex(sess, feedback_learning_index)
     IN  /\ learnDocs' = run.learnDocs
         /\ learnResponse' = run.response
         /\ feedback_learning_index' = run.table
  /\ UNCHANGED <<aggVars, handlerVars, pageVars, docImportance, sqmResults, sqmResponse,
                 search_quality_measures, sqmCall, observed>>

LearnNext == \E sess \in LearnSessions : LearnSession(sess)

SpecLearn == LearnInit /\ [][LearnNext]_vars

----------------------------------------------------------------------------
(* Claims about the learning index *)

EntriesAt(table, url) == {i \in 1..Len(table) : table[i].url = url}

\* the call merges importance v into entry i: the entry is the one entry of the URL
\* of a document of the session with importance v > 0
MergesInto(i, v) ==
  \E k \in 1..Len(learnDocs') :
     /\ learnDocs'[k].url = feedback_learning_index[i].url
     /\ EntriesAt(feedback_learning_index, learnDocs'[k].url) = {i}
     /\ learnDocs'[k].importance = v
     /\ RLess(RInt(0), v)

Between(x, low, high) == FLeq(low, x) /\ FLeq(x, high)

\* C6: a merge of importance v into an existing entry leaves learned_score between
\* the old score and v, so repeated merges of the same v move the score toward v
\* and never past it.
C6_MergeStaysBetween ==
  [][\A i \in 1..Len(feedback_learning_index) :
       \A k \in 1..Len(learnDocs') :
          MergesInto(i, learnDocs'[k].importance) =>
            LET old == feedback_learning_index[i].learned_score
                new == feedback_learning_index'[i].learned_score
                v == Number(learnDocs'[k].importance)
            IN  Between(new, old, v) \/ Between(new, v, old)]_vars

\* an entry created with score 3 has been merged with importance 3
C6_MergedSameImportance ==
  /\ learnCall = 2
  /\ Len(feedback_learning_index) = 1
  /\ feedback_learning_index[1].learned_score # Number(RInt(3))
  /\ Len(learnDocs) = 1 /\ learnDocs[1].importance = RInt(3)
  /\ learnResponse = LearnReply(200, 1)

\* C7: the learning index never holds two entries whose URLs are equal up to letter
\* case and trailing slashes.
C7_OneEntryPerNormalizedUrl ==
  \A i, j \in 1..Len(feedback_learning_index) :
     SameUrl(feedback_learning_index[i].url, feedback_learning_index[j].url) => i = j

\* two calls have left two entries for one document
C7_TwoEntries ==
  /\ learnCall = 2
  /\ Len(feedback_learning_index) = 2
  /\ SameUrl(feedback_learning_index[1].url, feedback_learning_index[2].url)

----------------------------------------------------------------------------
(* Claims about the guards of compute-sqm *)

\* the rows of a session that carry feedback
FedRows(sess) ==
  {i \in 1..Len(sess.results) :
     \E f \in 1..Len(sess.feedback) :
        sess.feedback[f].search_result_id = sess.results[i].id}

\* the rows of a session whose document has feedback on one of its rows
FedDocRows(sess) ==
  {i \in 1..Len(sess.results) :
     \E j \in FedRows(sess) : SameUrl(sess.results[i].url, sess.results[j].url)}

\* the number of distinct documents among the rows, one per URL up to case and
\* trailing slashes
DocCount(sess, rows) ==
  Cardinality({i \in rows :
                 \A j \in rows : j < i => ~SameUrl(sess.results[j].url, sess.results[i].url)})

FedDocCount(sess) == DocCount(sess, FedDocRows(sess))

\* the number of feedback-bearing documents that the engine lists
ListedCount(sess, engine) ==
  DocCount(sess, {i \in FedDocRows(sess) : sess.results[i].engine = engine})

\* the rows of the table that belong to the engine
RowsFor(table, engine) ==
  [i \in {j \in 1..Len(table) : table[j].engine = engine} |-> table[i]]

\* invocation c takes this step: it starts, or its record changes
Moves(c) == c > Len(sqmCall) \/ sqmCall'[c] # sqmCall[c]

\* C11: an invocation of compute-sqm for a session with fewer than 2 distinct
\* documents with feedback answers success with updated = 0 at once and neither
\* creates nor changes a record; an invocation for a session in which an engine lists
\* fewer than 2 of the documents with feedback computes no rho for that engine and
\* no step of it creates or changes a record of that engine.  (The profile of the
\* user exists in every session.)
C11_InsufficientDataIsNoOp ==
  [][\A c \in 1..Len(sqmCall') :
       Moves(c) =>
         LET sess == sqmCall'[c].session
         IN  /\ FedDocCount(sess) < 2 =>
                  /\ sqmCall'[c].pc = "done"
                  /\ sqmCall'[c].response.status = 200
                  /\ sqmCall'[c].response.updated = 0
                  /\ search_quality_measures' = search_quality_measures
             /\ \A engine \in SqmEngines :
                  ListedCount(sess, engine) < 2 =>
                    /\ \A k \in 1..Len(sqmCall'[c].todo) :
                         sqmCall'[c].todo[k].engine # engine
                    /\ RowsFor(search_quality_measures', engine)
                         = RowsFor(search_quality_measures, engine)]_vars

\* after records exist, an invocation for a session with feedback on one document
\* has answered updated = 0 and the records are as they were
C11_Witness ==
  /\ Len(sqmCall) = 2
  /\ AllAnswered
  /\ FedDocCount(sqmCall[1].session) = 2
  /\ FedDocCount(sqmCall[2].session) = 1
  /\ sqmCall[2].response.updated = 0
  /\ Len(search_quality_measures) = 2
  /\ \A engine \in SqmEngines :
       RecordsOf(engine) # {} /\ RecordOf(engine).query_count = 1

\* an invocation has written google's record for a session in which bing lists one
\* of the two documents with feedback, and bing's record is as it was
C11_WitnessEngine ==
  /\ Len(sqmCall) = 2
  /\ AllAnswered
  /\ ListedCount(sqmCall[2].session, "bing") = 1
  /\ ListedCount(sqmCall[2].session, "google") = 2
  /\ sqmCall[2].response.updated = 1
  /\ \A engine \in SqmEngines : RecordsOf(engine) # {}
  /\ RecordOf("google").query_count = 2
  /\ RecordOf("bing").query_count = 1

----------------------------------------------------------------------------
(* Specification SpecRank: the aggregation pipeline over result lists as the *)
(* search API numbers them, the k-th result of a list at position k, with    *)
(* up to MaxListed results per engine and ranks from 1 to MaxListed.         *)

MaxListed == 3    \* results per engine

RankLinks == {<<"a">>, <<"A", "/">>, <<"b">>, <<"a", "b">>}

\* the lists of up to MaxListed different links
LinkLists ==
  UNION {{l \in [1..k -> RankLinks] : \A i, j \in 1..k : i # j => l[i] # l[j]} :
           k \in 0..MaxListed}

\* organic_results of one response: position counts from 1
RankedList(links) ==
  [i \in 1..Len(links) |->
     [position |-> i, title |-> <<"t">>, link |-> links[i], snippet |-> <<"s">>]]

\* the third engine returns nothing or one result
ThirdLists == {<<>>, << <<"a", "b">> >>}

RankInputs ==
  {<< [engine |-> "google", results |-> RankedList(g), error |-> NoError],
      [engine |-> "bing", results |-> RankedList(b), error |-> NoError],
      [engine |-> "duckduckgo", results |-> RankedList(d), error |-> NoError] >> :
     g \in LinkLists, b \in LinkLists, d \in ThirdLists}

RankInit ==
  /\ PageOff
  /\ HandlerOff
  /\ FeedbackOff
  /\ aggPc = "input"
  /\ engineResults \in RankInputs
  /\ deduplicated = <<>>
  /\ aggregationMethod = Omitted
  /\ sqmScores = <<>>
  /\ merged = <<>>

SpecRank == RankInit /\ [][AggNext]_vars

----------------------------------------------------------------------------
(* Claims about the strategies, stated on the result lists of the request *)

\* the (engine, result) pairs of the lists ers in input order
EntriesOf(ers) == Flatten(ers)

\* the engines that returned a result
ActiveIn(ers) == {ers[i].engine : i \in {k \in 1..Len(ers) : Len(ers[k].results) > 0}}

\* the rank of the document of link u in an engine: the position of the engine's
\* first result with that URL, N + 1 = 11 when it has none
RankOf(ers, u, engine) ==
  LET entries == EntriesOf(ers)
      hits == {i \in 1..Len(entries) :
                 entries[i].engine = engine /\ SameUrl(entries[i].r.link, u)}
  IN  IF hits = {} THEN 11
      ELSE entries[CHOOSE i \in hits : \A j \in hits : i <= j].r.position

\* one link per document of the lists: the link first seen
DocLinks(ers) ==
  LET entries == EntriesOf(ers)
  IN  {entries[i].r.link :
         i \in {k \in 1..Len(entries) :
                  \A j \in 1..(k - 1) : ~SameUrl(entries[j].r.link, entries[k].r.link)}}

\* sum of the ranks of a document over the active engines, and of their squares
RankSum(ers, u) ==
  LET active == ActiveIn(ers)
      upTo[S \in SUBSET active] ==
        IF S = {} THEN 0
        ELSE LET e == CHOOSE x \in S : TRUE
             IN  upTo[S \ {e}] + RankOf(ers, u, e)
  IN  upTo[active]

RankSquares(ers, u) ==
  LET active == ActiveIn(ers)
      upTo[S \in SUBSET active] ==
        IF S = {} THEN 0
        ELSE LET e == CHOOSE x \in S : TRUE
             IN  upTo[S \ {e}] + RankOf(ers, u, e) * RankOf(ers, u, e)
  IN  upTo[active]

Ranked(mth) == aggPc = "ranked" /\ aggregationMethod = mth

\* C12: under the mbv strategy, of two documents whose ranks over the active
\* engines (absent = 11) have the same mean, the one with the smaller population
\* variance is never placed after the one with the larger variance.  With the same
\* number of ranks, equal means are equal sums, and the variance is smaller
\* exactly when the sum of squares is.
C12_MbvPenalizesInconsistency ==
  Ranked("mbv") =>
    \A i, j \in 1..Len(merged) :
       (/\ i < j
        /\ RankSum(engineResults, merged[i].url) = RankSum(engineResults, merged[j].url))
         => RankSquares(engineResults, merged[i].url)
              <= RankSquares(engineResults, merged[j].url)

\* ranks 1 and 3 are placed before ranks 2 and 2
C12_InconsistentFirst ==
  /\ Ranked("mbv")
  /\ \E i, j \in 1..Len(merged) :
       /\ i < j
       /\ {RankOf(engineResults, merged[i].url, e) : e \in {"google", "bing"}} = {1, 3}
       /\ {RankOf(engineResults, merged[j].url, e) : e \in {"google", "bing"}} = {2}
       /\ ActiveIn(engineResults) = {"google", "bing"}

\* the number of active engines that rank u at least as well as v
CountLeq(ers, u, v) ==
  Cardinality({e \in ActiveIn(ers) : RankOf(ers, u, e) <= RankOf(ers, v, e)})

\* the documents other than the one of link u
Others(ers, u) == {v \in DocLinks(ers) : ~SameUrl(u, v)}

\* Shimura: the minimum over the other documents of mu(u, v), 1 for a lone document
ShimuraOf(ers, u) ==
  LET counts == {CountLeq(ers, u, v) : v \in Others(ers, u)}
  IN  IF counts = {} THEN RInt(1)
      ELSE Rat(CHOOSE c \in counts : \A d \in counts : c <= d,
               Cardinality(ActiveIn(ers)))

\* OWA of m binary values of which c are 1, sorted descending, with the weights
\* w_j = 2(m + 1 - j) / (m(m + 1))
OwaValue(m, c) ==
  LET upTo[j \in 0..m] ==
        IF j = 0 THEN RInt(0)
        ELSE RAdd(upTo[j - 1],
                  RMul(Rat(2 * (m + 1 - j), m * (m + 1)), RInt(IF j <= c THEN 1 ELSE 0)))
  IN  upTo[m]

\* OWA-improved Shimura: the minimum over the other documents of the OWA value
OwaOf(ers, u) ==
  LET values == {OwaValue(Cardinality(ActiveIn(ers)), CountLeq(ers, u, v)) :
                   v \in Others(ers, u)}
  IN  IF values = {} THEN RInt(1)
      ELSE CHOOSE x \in values : \A y \in values : RLeq(x, y)

\* the pairs of documents with equal scores
ShimuraTies(ers) ==
  {pair \in SUBSET DocLinks(ers) :
     /\ Cardinality(pair) = 2
     /\ \A u, v \in pair : ShimuraOf(ers, u) = ShimuraOf(ers, v)}

OwaTies(ers) ==
  {pair \in SUBSET DocLinks(ers) :
     /\ Cardinality(pair) = 2
     /\ \A u, v \in pair : OwaOf(ers, u) = OwaOf(ers, v)}

\* the output lists every merged document once, by non-increasing score, documents
\* of equal score in deduplication order
OrderedByOwa ==
  /\ IsPermutation(merged, deduplicated)
  /\ \A i, j \in 1..Len(merged) :
       i < j =>
         /\ RLeq(OwaOf(engineResults, merged[j].url), OwaOf(engineResults, merged[i].url))
         /\ OwaOf(engineResults, merged[i].url) = OwaOf(engineResults, merged[j].url) =>
              IndexIn(deduplicated, merged[i]) < IndexIn(deduplicated, merged[j])

C14_ShimuraOrder ==
  (Ranked("shimura") /\ ActiveIn(engineResults) # {}) =>
    /\ IsPermutation(merged, deduplicated)
    /\ \A i \in 1..Len(merged) :
         /\ RLeq(RInt(0), ShimuraOf(engineResults, merged[i].url))
         /\ RLeq(ShimuraOf(engineResults, merged[i].url), RInt(1))
    /\ Len(merged) = 1 => ShimuraOf(engineResults, merged[1].url) = RInt(1)
    /\ \A i, j \in 1..Len(merged) :
         i < j => RLeq(ShimuraOf(engineResults, merged[j].url),
                       ShimuraOf(engineResults, merged[i].url))

\* three documents with three different scores, one of them strictly between 0 and
\* 1, were reordered
C14_Witness ==
  /\ Ranked("shimura")
  /\ Len(merged) = 3
  /\ merged # deduplicated
  /\ Cardinality({ShimuraOf(engineResults, merged[i].url) : i \in 1..3}) = 3
  /\ \E i \in 1..3 : /\ RLess(RInt(0), ShimuraOf(engineResults, merged[i].url))
                      /\ RLess(ShimuraOf(engineResults, merged[i].url), RInt(1))

\* a lone document
C14_WitnessLone ==
  /\ Ranked("shimura")
  /\ Len(merged) = 1
  /\ Cardinality(ActiveIn(engineResults)) = 2

\* the weight of an engine: its stored SQM score, 1 when none is stored
StoredWeight(engine) ==
  IF engine \in DOMAIN sqmScores THEN sqmScores[engine] ELSE RInt(1)

\* sum over the reports of a document of weight(engine) * (N + 1 - rank), N = 10
ExpectedBiased(doc) ==
  LET reports == ReportsOf(doc.url)
      upTo[k \in 0..Len(reports)] ==
        IF k = 0 THEN RInt(0)
        ELSE RAdd(upTo[k - 1],
                  RMul(StoredWeight(reports[k].engine), RInt(11 - reports[k].rank)))
  IN  upTo[Len(reports)]

\* the Borda ordering of the merged documents: non-increasing sum of (N + 1 - rank),
\* equal sums in deduplication order
InBordaOrder(docs) ==
  /\ IsPermutation(docs, deduplicated)
  /\ \A i, j \in 1..Len(docs) :
       i < j =>
         /\ ExpectedBorda(docs[i]) >= ExpectedBorda(docs[j])
         /\ ExpectedBorda(docs[i]) = ExpectedBorda(docs[j]) =>
              IndexIn(deduplicated, docs[i]) < IndexIn(deduplicated, docs[j])

\* C15: under the biased strategy the score of a document is the sum over the
\* engine reports of it of weight(engine) * (N + 1 - rank), the weight being the
\* stored SQM score of the engine and 1 when none is stored; the output lists the
\* merged documents by non-increasing score; with no SQM stored for any engine the
\* output is the Borda ordering.
C15_BiasedOrder ==
  Ranked("biased") =>
    /\ IsPermutation(merged, deduplicated)
    /\ \A i, j \in 1..Len(merged) :
         i < j => RLeq(ExpectedBiased(merged[j]), ExpectedBiased(merged[i]))
    /\ DOMAIN sqmScores = {} => InBordaOrder(merged)

\* a negative and a fractional SQM are stored and the output is not the Borda
\* ordering
C15_Witness ==
  /\ Ranked("biased")
  /\ DOMAIN sqmScores = {"google", "bing"}
  /\ Len(merged) = 3
  /\ ~InBordaOrder(merged)
  /\ \E i \in 1..3 : RLess(ExpectedBiased(merged[i]), RInt(0))

\* no SQM is stored and the documents were reordered
C15_WitnessNoSqm ==
  /\ Ranked("biased")
  /\ DOMAIN sqmScores = {}
  /\ Len(merged) = 3
  /\ merged # deduplicated

\* the number of active engines in which the document of link u has rank r
Frequency(ers, u, r) == Cardinality({e \in ActiveIn(ers) : RankOf(ers, u, e) = r})

\* the smallest of the most frequent ranks of a document over the active engines
ExpectedModal(ers, u) ==
  LET ranks == {RankOf(ers, u, e) : e \in ActiveIn(ers)}
      most == {r \in ranks : \A q \in ranks : Frequency(ers, u, q) <= Frequency(ers, u, r)}
  IN  CHOOSE r \in most : \A q \in most : r <= q

C16_WitnessFrequent ==
  /\ Ranked("modal")
  /\ Cardinality(ActiveIn(engineResults)) = 3
  /\ \E i \in 1..Len(merged) :
       /\ ExpectedModal(engineResults, merged[i].url) = 11
       /\ RankOf(engineResults, merged[i].url, "google") = 1

\* the largest of (N + 1 - rank) / N over the active engines, N = 10; an engine that
\* does not report the document has rank 11 and contributes 0
ExpectedMfo(ers, u) ==
  LET values == {Rat(11 - RankOf(ers, u, e), 10) : e \in ActiveIn(ers)}
  IN  CHOOSE x \in values : \A y \in values : RLeq(y, x)

\* some engine reports the document at rank 1
RankedFirst(doc) ==
  \E k \in 1..Len(ReportsOf(doc.url)) : ReportsOf(doc.url)[k].rank = 1

----------------------------------------------------------------------------
(* Claims about the merged documents *)

\* C18: after deduplicateResults every merged document carries at most one rank per
\* engine: the engine names of its engine/rank entries are pairwise distinct.
C18_OneRankPerEngine ==
  aggPc # "input" =>
    \A d \in 1..Len(deduplicated) :
       \A i, j \in 1..Len(deduplicated[d].engines) :
          i # j => deduplicated[d].engines[i].engine # deduplicated[d].engines[j].engine

\* one engine lists a URL twice, in two spellings, and the merged document carries
\* both ranks under that engine's name
C18_TwoRanksOfOneEngine ==
  /\ aggPc = "deduped"
  /\ Len(deduplicated) = 1
  /\ Len(deduplicated[1].engines) = 2
  /\ deduplicated[1].engines[1].engine = deduplicated[1].engines[2].engine
  /\ deduplicated[1].engines[1].rank = 1
  /\ deduplicated[1].engines[2].rank = 2

----------------------------------------------------------------------------
(* Specification SpecFill: the aggregation pipeline over results whose title *)
(* or snippet may be empty (searchEngine: title: r.title ?? "").  Each       *)
(* engine returns at most one result; google's and bing's are one URL in two *)
(* spellings, the third engine's is that URL or another.                     *)

\* no result, or one result at position 1 with one of the links
FillLists(links) ==
  {<<>>} \cup {<<[position |-> 1, title |-> t, link |-> l, snippet |-> x]>> :
                 t \in {EmptyString, <<"t">>, <<"u">>}, l \in links,
                 x \in {EmptyString, <<"s">>, <<"v">>}}

FillInputs ==
  {<< [engine |-> "google", results |-> g, error |-> NoError],
      [engine |-> "bing", results |-> b, error |-> NoError],
      [engine |-> "duckduckgo", results |-> d, error |-> NoError] >> :
     g \in FillLists({<<"a">>}), b \in FillLists({<<"A", "/">>}),
     d \in FillLists({<<"a">>, <<"b">>})}

FillInit ==
  /\ PageOff
  /\ HandlerOff
  /\ FeedbackOff
  /\ aggPc = "input"
  /\ engineResults \in FillInputs
  /\ deduplicated = <<>>
  /\ aggregationMethod = Omitted
  /\ sqmScores = <<>>
  /\ merged = <<>>

SpecFill == FillInit /\ [][AggNext]_vars

\* the first non-empty value of a field among the entries of the document of link u,
\* in input order; empty when every entry's value is empty
FirstNonEmpty(u, Field(_)) ==
  LET filled == {i \in 1..Len(Entries) :
                   SameUrl(Entries[i].r.link, u) /\ Field(Entries[i].r) # EmptyString}
  IN  IF filled = {} THEN EmptyString
      ELSE Field(Entries[CHOOSE i \in filled : \A j \in filled : i <= j].r)

TitleOf(r) == r.title
SnippetOf(r) == r.snippet

\* C19: the title and the snippet of a merged document are each the first non-empty
\* value the entries of that document supply in input order, and empty only if
\* every entry's value is empty; a later entry never replaces a non-empty one.
C19_FirstNonEmptyKept ==
  aggPc # "input" =>
    \A d \in 1..Len(deduplicated) :
       /\ deduplicated[d].title = FirstNonEmpty(deduplicated[d].url, TitleOf)
       /\ deduplicated[d].snippet = FirstNonEmpty(deduplicated[d].url, SnippetOf)

\* the part of C19 about the snippet alone
C19_SnippetKept ==
  aggPc # "input" =>
    \A d \in 1..Len(deduplicated) :
       deduplicated[d].snippet = FirstNonEmpty(deduplicated[d].url, SnippetOf)

\* the first entry of a document has no title, a later one has, and the merged
\* document has none; its snippet was filled from the later entry
C19_TitleLeftEmpty ==
  /\ aggPc = "deduped"
  /\ Len(deduplicated) = 1
  /\ deduplicated[1].title = EmptyString
  /\ FirstNonEmpty(deduplicated[1].url, TitleOf) = <<"t">>
  /\ Entries[1].r.snippet = EmptyString
  /\ deduplicated[1].snippet = <<"s">>

----------------------------------------------------------------------------
(* Claims about what update-learning-index stores *)

\* entry i of the index is created or changed by the step
Touched(i) ==
  \/ i > Len(feedback_learning_index)
  \/ feedback_learning_index'[i] # feedback_learning_index[i]

\* the documents of the call that have feedback and importance > 0
Important == {k \in 1..Len(learnDocs') : RLess(RInt(0), learnDocs'[k].importance)}

C20_WitnessZeroWeights ==
  /\ learnCall >= 2
  /\ session.profile = <<ZeroWeights>>
  /\ Len(learnDocs) = 1
  /\ learnResponse = LearnReply(200, 0)
  /\ Len(feedback_learning_index) >= 1

----------------------------------------------------------------------------
(* Claims about the matched queries of the learning index *)

QuerySet(entry) == {entry.query_matches[i] : i \in 1..Len(entry.query_matches)}

NoDuplicateQuery(entry) ==
  \A i, j \in 1..Len(entry.query_matches) :
     entry.query_matches[i] = entry.query_matches[j] => i = j

\* the non-empty query text of the session of the call, as a set
MergedQuery == IF session'.query = "" THEN {} ELSE {session'.query}

\* C21: over sequential calls of update-learning-index, a merge into the entry of a
\* URL adds the session's non-empty query text to query_matches and keeps every text
\* that was there, no query_matches ever holds a string twice, and an entry created
\* has learned_score = importance and query_matches = {queryText}, empty when the
\* session has no query text.
C21_MatchedQueriesAreASet ==
  [][/\ \A i \in 1..Len(feedback_learning_index') :
          NoDuplicateQuery(feedback_learning_index'[i])
     /\ \A i \in 1..Len(feedback_learning_index) :
          /\ feedback_learning_index'[i].url = feedback_learning_index[i].url
          /\ QuerySet(feedback_learning_index[i]) \subseteq QuerySet(feedback_learning_index'[i])
     /\ \A k \in Important :
          LET u == learnDocs'[k].url
              before == EntriesAt(feedback_learning_index, u)
              after == EntriesAt(feedback_learning_index', u)
          IN  /\ Cardinality(after) = 1
              /\ \A i \in after :
                    IF i \in before
                    THEN QuerySet(feedback_learning_index'[i])
                           = QuerySet(feedback_learning_index[i]) \cup MergedQuery
                    ELSE /\ before = {}
                         /\ feedback_learning_index'[i].learned_score
                              = Number(learnDocs'[k].importance)
                         /\ QuerySet(feedback_learning_index'[i]) = MergedQuery
                         /\ Len(feedback_learning_index'[i].query_matches)
                              = Cardinality(MergedQuery)]_vars

\* an entry has been merged three times, twice with the same query text and once
\* with another
C21_Witness ==
  /\ learnCall = 3
  /\ \E i \in 1..Len(feedback_learning_index) :
       /\ feedback_learning_index[i].query_matches \in {<<"cats", "dogs">>, <<"dogs", "cats">>}
       /\ Len(feedback_learning_index) = 1
  /\ learnResponse = LearnReply(200, 1)

\* an entry was created by a session without query text and merged with one
C21_WitnessNoQueryText ==
  /\ learnCall = 2
  /\ Len(feedback_learning_index) = 1
  /\ session.query = "cats"
  /\ feedback_learning_index[1].query_matches = <<"cats">>
  /\ feedback_learning_index[1].learned_score # Number(learnDocs[1].importance)

\* an entry created by a session without query text has no matched query
C21_WitnessCreatedEmpty ==
  /\ learnCall = 1
  /\ session.query = ""
  /\ Len(feedback_learning_index) = 1
  /\ feedback_learning_index[1].query_matches = <<>>

----------------------------------------------------------------------------
(* Specification SpecLearned: the multi-search handler from the point where *)
(* the three engine searches have settled, against a learning index of up   *)
(* to MaxIndex rows.  The rows have distinct scores MaxIndex, MaxIndex - 1, *)
(* ... and are stored in ascending or descending order of score; which of   *)
(* them match the query is chosen by their place in the order of scores.    *)

MaxIndex == 22    \* rows of the user in feedback_learning_index

IndexLetters ==
  <<"c", "d", "e", "f", "g", "h", "i", "j", "k", "l", "m", "n",
    "o", "p", "q", "r", "s", "t", "u", "v", "w", "x", "y", "z">>

\* the places, counted from the best score, where a row may match the query
MatchPlaces == {1, 2, 11, LearnLimit, LearnLimit + 1, LearnLimit + 2}

\* the row with the r-th best score
IndexRow(r, matches) ==
  [url |-> <<IndexLetters[r]>>,
   title |-> IF r % 2 = 0 THEN EmptyString ELSE <<"t">>,
   snippet |-> <<"s">>,
   learned_score |-> RInt(MaxIndex + 1 - r),
   query_matches |->
     IF matches
     THEN IF r % 2 = 1 THEN << <<"cats", "toys">> >> ELSE << <<"Dogs">>, <<"Cats">> >>
     ELSE IF r % 2 = 1 THEN << <<"Dogs">> >> ELSE <<>>]

LearnedTables ==
  {[i \in 1..n |-> IndexRow(IF up THEN n + 1 - i ELSE i, (IF up THEN n + 1 - i ELSE i) \in S)] :
     n \in 0..MaxIndex, up \in BOOLEAN,
     S \in (SUBSET MatchPlaces) \cup {1..MaxIndex}}

\* google has answered with nothing or with the document of the best row, the other
\* engines with nothing
SettledEngines ==
  {[i \in 1..Len(EngineNames) |->
      LET api == IF i = 1 THEN g ELSE [kind |-> "json"]
      IN  Resolved(api, searchEngine(EngineNames[i], api))] :
     g \in {[kind |-> "json"],
            [kind |-> "json",
             organic_results |-> <<[position |-> 1, title |-> <<"t">>,
                                    link |-> <<"c", "/">>, snippet |-> <<"s">>]>>]}}

LearnedInit ==
  /\ PageOff
  /\ session = <<>>
  /\ docImportance = <<>>
  /\ sqmResults = <<>>
  /\ sqmResponse = <<>>
  /\ learnDocs = <<>>
  /\ learnResponse = <<>>
  /\ search_quality_measures = <<>>
  /\ feedback_learning_index \in LearnedTables
  /\ sqmCall = <<>>
  /\ learnCall = 0
  /\ observed = <<>>
  /\ hPc = "searching"
  /\ request = [kind |-> "ok", query |-> HandlerQuery, aggregation_method |-> Omitted]
  /\ enginePromise \in SettledEngines
  /\ learningResults = [engine |-> "learned", results |-> <<>>, error |-> NoError]
  /\ response = <<>>
  /\ aggPc = "off"
  /\ engineResults = <<>>
  /\ deduplicated = <<>>
  /\ aggregationMethod = MethodOrDefault(Omitted)
  /\ sqmScores = <<>>
  /\ merged = <<>>

\* the learning index and SQM selects answered from the tables
LookupIndex ==
  /\ hPc = "searching"
  /\ \A i \in 1..Len(EngineNames) : enginePromise[i] # Pending
  /\ LET data == selectLearned(feedback_learning_index)
     IN  learningResults' =
           IF Len(data) > 0
           THEN [learningResults EXCEPT !.results = learnedResults(data, request.query)]
           ELSE learningResults
  /\ sqmScores' = sqmScoresOf(search_quality_measures)
  /\ hPc' = "ranking"
  /\ UNCHANGED <<aggPc, engineResults, deduplicated, aggregationMethod, merged,
                 request, enginePromise, response, feedbackVars, pageVars>>

LearnedNext == LookupIndex \/ Respond

SpecLearned == LearnedInit /\ [][LearnedNext]_vars

----------------------------------------------------------------------------
(* Claims about the learned source *)

\* the case-folded, whitespace-separated tokens of a text
Tokens(q) == {LowerWord(q[i]) : i \in 1..Len(q)}

\* a row of the index one of whose matched queries shares a token with the query
SharesToken(row) ==
  \E k \in 1..Len(row.query_matches) :
     Tokens(row.query_matches[k]) \cap Tokens(request.query) # {}

IndexRows == {feedback_learning_index[i] : i \in 1..Len(feedback_learning_index)}

\* the learned list is made of exactly these rows: ranked 1..k, one result per row,
\* in order of descending learned score
LearnedListIs(rows) ==
  LET list == learningResults.results
  IN  /\ Len(list) = Cardinality(rows)
      /\ {list[k].link : k \in 1..Len(list)} = {row.url : row \in rows}
      /\ \A k \in 1..Len(list) : list[k].position = k
      /\ \A k, l \in 1..Len(list) :
            k < l =>
              \A a, b \in rows :
                 a.url = list[k].link /\ b.url = list[l].link =>
                   RLeq(b.learned_score, a.learned_score)

\* C22: once the handler has read the learning index, the learned list consists of
\* exactly the rows of the user's index that share a token with the query, whatever
\* the number of rows, ranked 1..k in order of descending learned score.
C22_LearnedIsEveryMatch ==
  hPc \in {"ranking", "done"} =>
    LearnedListIs({row \in IndexRows : SharesToken(row)})

\* the rows with the LearnLimit best scores
BestRows ==
  {row \in IndexRows :
     Cardinality({o \in IndexRows : RLess(row.learned_score, o.learned_score)}) < LearnLimit}

\* what the handler does: the matching rows among the LearnLimit best
C22_MatchesAmongBestRows ==
  hPc \in {"ranking", "done"} =>
    LearnedListIs({row \in BestRows : SharesToken(row)})

\* a row beyond the LearnLimit best matches the query and is not in the learned
\* list, which has fewer than LearnLimit results
C22_MatchLeftOut ==
  /\ hPc = "done"
  /\ Len(learningResults.results) < LearnLimit
  /\ \E row \in IndexRows \ BestRows :
       /\ SharesToken(row)
       /\ \A k \in 1..Len(learningResults.results) :
            learningResults.results[k].link # row.url

----------------------------------------------------------------------------
(* Specification SpecTrack: the feedback tracker of one page, called for    *)
(* one search result of the signed-in user.  Each call is asynchronous: its *)
(* selects and its write are separate steps, and the steps of the calls in  *)
(* flight interleave.                                                       *)

MaxTrackCalls == 3    \* calls of the tracker

FlagFields == {"printed", "saved", "bookmarked", "emailed"}
CharCounts == {1, 2}
DwellTimes == {3}

\* the column defaults of user_feedback; click_order NULL is 0
FeedbackDefaults ==
  [click_order |-> 0, dwell_time_ms |-> 0, printed |-> FALSE, saved |-> FALSE,
   bookmarked |-> FALSE, emailed |-> FALSE, copy_paste_chars |-> 0]

\* .select(...).eq("search_result_id", ...).eq("user_id", ...).maybeSingle(): data is
\* null unless exactly one row matches
feedbackSelect(table) == IF Len(table) = 1 THEN <<table[1]>> ELSE Null

\* {...row, ...fields}
WithFields(row, fields) ==
  [c \in DOMAIN row |-> IF c \in DOMAIN fields THEN fields[c] ELSE row[c]]

\* the update by id of the row read, or the insert
feedbackWrite(table, existing, fields) ==
  IF existing # Null
  THEN [i \in 1..Len(table) |->
          IF table[i].id = existing[1].id THEN WithFields(table[i], fields) ELSE table[i]]
  ELSE Append(table, WithFields([id |-> Len(table) + 1] @@ FeedbackDefaults, fields))

TrackInit ==
  /\ HandlerOff
  /\ FeedbackOff
  /\ aggPc = "off"
  /\ engineResults = <<>>
  /\ deduplicated = <<>>
  /\ aggregationMethod = Omitted
  /\ sqmScores = <<>>
  /\ merged = <<>>
  /\ user_feedback = <<>>
  /\ trackCall = <<>>
  /\ clickCounter = 0
  /\ openTabs = <<>>
  /\ recorded = <<>>
  /\ prevHistoryIdRef = <<>>
  /\ searchPc = "off"
  /\ search_history = 0
  /\ events = <<>>

\* upsertFeedback(searchResultId, fields) is called: it runs up to its first await
StartUpsert(fields) ==
  /\ Len(trackCall) < MaxTrackCalls
  /\ trackCall' = Append(trackCall, [pc |-> "select", fields |-> fields, existing |-> Null])
  /\ recorded' = Append(recorded, fields)

\* trackPrint, trackSave, trackBookmark, trackEmail
TrackFlag(field) ==
  /\ StartUpsert(field :> TRUE)
  /\ UNCHANGED <<user_feedback, clickCounter, openTabs,
                 aggVars, handlerVars, feedbackVars, clientVars>>

TrackClick ==
  /\ clickCounter' = clickCounter + 1
  /\ openTabs' = <<[clickOrder |-> clickCounter + 1]>>
  /\ StartUpsert("click_order" :> (clickCounter + 1))
  /\ UNCHANGED <<user_feedback, aggVars, handlerVars, feedbackVars, clientVars>>

\* trackDwell returns at once unless the result has an open tab
TrackDwell(dwellMs) ==
  /\ openTabs # <<>>
  /\ openTabs' = <<>>
  /\ StartUpsert("dwell_time_ms" :> dwellMs)
  /\ UNCHANGED <<user_feedback, clickCounter, aggVars, handlerVars, feedbackVars, clientVars>>

\* trackCopyPaste is called: it runs up to its select of copy_paste_chars
TrackCopyPaste(charCount) ==
  /\ Len(trackCall) < MaxTrackCalls
  /\ trackCall' = Append(trackCall, [pc |-> "read", charCount |-> charCount])
  /\ recorded' = Append(recorded, "copy_paste_chars" :> charCount)
  /\ UNCHANGED <<user_feedback, clickCounter, openTabs,
                 aggVars, handlerVars, feedbackVars, clientVars>>

\* the select of trackCopyPaste answers; upsertFeedback is called with prev + charCount
CopyRead(c) ==
  /\ trackCall[c].pc = "read"
  /\ LET existing == feedbackSelect(user_feedback)
         prev == IF existing # Null THEN existing[1].copy_paste_chars ELSE 0
     IN  trackCall' =
           [trackCall EXCEPT
              ![c] = [pc |-> "select",
                      fields |-> ("copy_paste_chars" :> (prev + trackCall[c].charCount)),
                      existing |-> Null]]
  /\ UNCHANGED <<user_feedback, clickCounter, openTabs, recorded,
                 aggVars, handlerVars, feedbackVars, clientVars>>

\* the select of upsertFeedback answers
UpsertSelect(c) ==
  /\ trackCall[c].pc = "select"
  /\ trackCall' = [trackCall EXCEPT ![c].pc = "write",
                                     ![c].existing = feedbackSelect(user_feedback)]
  /\ UNCHANGED <<user_feedback, clickCounter, openTabs, recorded,
                 aggVars, handlerVars, feedbackVars, clientVars>>

\* the update or the insert of upsertFeedback completes
UpsertWrite(c) ==
  /\ trackCall[c].pc = "write"
  /\ user_feedback' = feedbackWrite(user_feedback, trackCall[c].existing, trackCall[c].fields)
  /\ trackCall' = [trackCall EXCEPT ![c].pc = "done"]
  /\ UNCHANGED <<clickCounter, openTabs, recorded,
                 aggVars, handlerVars, feedbackVars, clientVars>>

TrackNext ==
  \/ \E field \in FlagFields : TrackFlag(field)
  \/ TrackClick
  \/ \E dwellMs \in DwellTimes : TrackDwell(dwellMs)
  \/ \E charCount \in CharCounts : TrackCopyPaste(charCount)
  \/ \E c \in 1..Len(trackCall) : CopyRead(c)
  \/ \E c \in 1..Len(trackCall) : UpsertSelect(c)
  \/ \E c \in 1..Len(trackCall) : UpsertWrite(c)

SpecTrack == TrackInit /\ [][TrackNext]_vars

----------------------------------------------------------------------------
(* Claims about the feedback tracker *)

AllTracked == \A c \in 1..Len(trackCall) : trackCall[c].pc = "done"

\* the signals recorded for a column, in call order
RecordedFor(column) ==
  LET has(fields) == column \in DOMAIN fields
  IN  SelectSeq(recorded, has)

\* the sum of the character counts of the copy events
CopiedChars ==
  LET copies == RecordedFor("copy_paste_chars")
      upTo[k \in 0..Len(copies)] ==
        IF k = 0 THEN 0 ELSE upTo[k - 1] + copies[k]["copy_paste_chars"]
  IN  upTo[Len(copies)]

\* the copy_paste_chars stored for the search result, over all its rows
StoredChars ==
  LET upTo[k \in 0..Len(user_feedback)] ==
        IF k = 0 THEN 0 ELSE upTo[k - 1] + user_feedback[k].copy_paste_chars
  IN  upTo[Len(user_feedback)]

\* a column other than copy_paste_chars holds a value written to it, or its default
HoldsWritten(row, column) ==
  \/ row[column] = FeedbackDefaults[column]
  \/ \E k \in 1..Len(recorded) :
        column \in DOMAIN recorded[k] /\ recorded[k][column] = row[column]

\* C23: once the handlers of the copy events with counts c1..ck have all finished,
\* overlapping or not, the copy_paste_chars stored for the search result is
\* c1 + ... + ck, and every other column holds a value that was written to it.
C23_CopyCharsAdditive ==
  AllTracked =>
    /\ StoredChars = CopiedChars
    /\ \A i \in 1..Len(user_feedback) :
         \A column \in DOMAIN FeedbackDefaults \ {"copy_paste_chars"} :
            HoldsWritten(user_feedback[i], column)

\* two copy events on a search result that already has its row: the row holds the
\* count of one of them
C23_LostCopy ==
  /\ AllTracked
  /\ Len(user_feedback) = 1
  /\ Len(RecordedFor("copy_paste_chars")) = 2
  /\ user_feedback[1].copy_paste_chars < CopiedChars

\* copy events whose handlers do not overlap add up
C23_SequentialCopiesAdd ==
  /\ AllTracked
  /\ Len(user_feedback) = 1
  /\ Len(RecordedFor("copy_paste_chars")) = 3
  /\ user_feedback[1].copy_paste_chars = CopiedChars

\* C28: whatever the interleaving of the tracker's calls on one search result, the
\* user has at most one user_feedback row for it, and once the calls have finished
\* that row holds every signal recorded: each flag recorded is set, and the click
\* order and the dwell time are ones that were recorded.
C28_OneRowHoldsEverySignal ==
  /\ Len(user_feedback) <= 1
  /\ AllTracked /\ recorded # <<>> =>
       /\ Len(user_feedback) = 1
       /\ \A column \in DOMAIN FeedbackDefaults \ {"copy_paste_chars"} :
            LET signals == RecordedFor(column)
            IN  signals # <<>> =>
                  \E k \in 1..Len(signals) : user_feedback[1][column] = signals[k][column]

\* two calls that overlapped have each inserted a row
C28_TwoRows ==
  /\ AllTracked
  /\ Len(trackCall) = 2
  /\ Len(user_feedback) = 2
  /\ user_feedback[1].saved /\ ~user_feedback[2].saved
  /\ user_feedback[2].bookmarked

\* with two rows in the table a later call finds no single row and inserts a third
C28_ThirdRow ==
  /\ AllTracked
  /\ Len(user_feedback) = 3

----------------------------------------------------------------------------
(* Specification SpecPage: the search page (Index.tsx).  handleSearch runs   *)
(* from one await to the next; the form is disabled while it runs, so its   *)
(* invocations do not overlap.  The edge functions it invokes run on the    *)
(* server on their own: `events` records each invocation, the write of an   *)
(* update-learning-index invocation and the read of the learning index by a *)
(* multi-search invocation, in the order they happen.                       *)

MaxSearches == 3    \* submissions of the search form

Invoked(fn, id) == [at |-> "invoked", fn |-> fn, id |-> id]

\* if (prevHistoryIdRef.current) updateLearningIndex(prevHistoryIdRef.current), not awaited
FireLearning(log) ==
  IF prevHistoryIdRef # Null
  THEN Append(log, Invoked("update-learning-index", prevHistoryIdRef[1]))
  ELSE log

PageInit ==
  /\ FeedbackOff
  /\ hPc = "off"
  /\ request = [search |-> 0]
  /\ enginePromise = <<>>
  /\ learningResults = <<>>
  /\ response = <<>>
  /\ aggPc = "off"
  /\ engineResults = <<>>
  /\ deduplicated = <<>>
  /\ aggregationMethod = Omitted
  /\ sqmScores = <<>>
  /\ merged = <<>>
  /\ user_feedback = <<>>
  /\ trackCall = <<>>
  /\ clickCounter \in {0, 1}
  /\ openTabs = <<>>
  /\ recorded = <<>>
  /\ prevHistoryIdRef = Null
  /\ searchPc = "idle"
  /\ search_history = 0
  /\ events = <<>>

\* handleSearch up to `await multiSearch(...)`
Submit ==
  /\ searchPc = "idle"
  /\ request.search < MaxSearches
  /\ request' = [search |-> request.search + 1]
  /\ events' = Append(FireLearning(events), Invoked("multi-search", request.search + 1))
  /\ clickCounter' = 0
  /\ openTabs' = <<>>
  /\ searchPc' = "searching"
  /\ UNCHANGED <<aggVars, hPc, enginePromise, learningResults, response, feedbackVars,
                 user_feedback, trackCall, recorded, prevHistoryIdRef, search_history>>

\* the multi-search handler selects from feedback_learning_index
SearchReads ==
  /\ searchPc = "searching"
  /\ searchPc' = "read"
  /\ events' = Append(events, [at |-> "read", fn |-> "multi-search", id |-> request.search])
  /\ UNCHANGED <<aggVars, handlerVars, feedbackVars, trackVars, prevHistoryIdRef,
                 search_history>>

\* multiSearch throws, or returns success: false
SearchFails ==
  /\ searchPc \in {"searching", "read"}
  /\ response' = [success |-> FALSE]
  /\ searchPc' = "idle"
  /\ UNCHANGED <<aggVars, hPc, request, enginePromise, learningResults, feedbackVars,
                 trackVars, prevHistoryIdRef, search_history, events>>

\* multiSearch returns success: true with a merged list, which may be empty
SearchSucceeds(count) ==
  /\ searchPc = "read"
  /\ response' = [success |-> TRUE, merged |-> count]
  /\ searchPc' = "history"
  /\ UNCHANGED <<aggVars, hPc, request, enginePromise, learningResults, feedbackVars,
                 trackVars, prevHistoryIdRef, search_history, events>>

\* the insert into search_history answers
InsertHistory(historyError) ==
  /\ searchPc = "history"
  /\ IF historyError
     THEN /\ prevHistoryIdRef' = Null
          /\ searchPc' = "idle"
          /\ UNCHANGED search_history
     ELSE /\ search_history' = search_history + 1
          /\ IF response.merged > 0
             THEN /\ prevHistoryIdRef' = <<search_history + 1>>
                  /\ searchPc' = "results"
             ELSE /\ searchPc' = "idle"
                  /\ UNCHANGED prevHistoryIdRef
  /\ UNCHANGED <<aggVars, handlerVars, feedbackVars, trackVars, events>>

\* the insert into search_results answers, with an error or not
InsertResults ==
  /\ searchPc = "results"
  /\ searchPc' = "idle"
  /\ UNCHANGED <<aggVars, handlerVars, feedbackVars, trackVars, prevHistoryIdRef,
                 search_history, events>>

\* the beforeunload handler
Unload ==
  /\ searchPc # "unloaded"
  /\ events' = FireLearning(events)
  /\ searchPc' = "unloaded"
  /\ UNCHANGED <<aggVars, handlerVars, feedbackVars, trackVars, prevHistoryIdRef,
                 search_history>>

\* invocation e of update-learning-index writes feedback_learning_index
LearnWrites(e) ==
  /\ events[e] \in {Invoked("update-learning-index", id) : id \in 1..MaxSearches}
  /\ \A w \in 1..Len(events) : events[w].at = "written" => events[w].call # e
  /\ events' = Append(events, [at |-> "written", fn |-> "update-learning-index",
                               id |-> events[e].id, call |-> e])
  /\ UNCHANGED <<aggVars, handlerVars, feedbackVars, trackVars, prevHistoryIdRef,
                 searchPc, search_history>>

PageNext ==
  \/ Submit
  \/ SearchReads
  \/ SearchFails
  \/ \E count \in {0, 1} : SearchSucceeds(count)
  \/ \E historyError \in BOOLEAN : InsertHistory(historyError)
  \/ InsertResults
  \/ Unload
  \/ \E e \in 1..Len(events) : LearnWrites(e)

SpecPage == PageInit /\ [][PageNext]_vars

----------------------------------------------------------------------------
(* Claims about the processing of finished sessions *)

\* the places in the history where update-learning-index is invoked for a session
LearnInvocations(id) ==
  {e \in 1..Len(events) : events[e] = Invoked("update-learning-index", id)}

SessionIds == 1..MaxSearches

\* C24: over searches that succeed, fail or return nothing, failures to save the
\* history and page unload, update-learning-index is invoked at most once for each
\* search_history_id.
C24_FoldedAtMostOnce ==
  \A id \in SessionIds : Cardinality(LearnInvocations(id)) <= 1

\* a session was processed when the next search was submitted, that search failed,
\* and the session was processed again by the search after it
C24_ProcessedTwice ==
  /\ request.search = 3
  /\ search_history = 1
  /\ response = [success |-> FALSE]
  /\ Cardinality(LearnInvocations(1)) = 2
  /\ searchPc = "searching"

\* the place in the history where search n was submitted
SubmittedAt(n) == CHOOSE e \in 1..Len(events) : events[e] = Invoked("multi-search", n)

\* C25: when multi-search reads the learning index for a new query, every
\* update-learning-index invocation fired before that search was submitted has
\* written the learning index.
C25_PreviousSessionProcessedFirst ==
  \A r \in 1..Len(events) :
     events[r].at = "read" =>
       \A e \in 1..SubmittedAt(events[r].id) :
          events[e].at = "invoked" /\ events[e].fn = "update-learning-index" =>
            \E w \in 1..r : events[w].at = "written" /\ events[w].call = e

\* the new search has read the learning index and the update for the previous
\* session, fired by the same submission, has not written it yet
C25_ReadBeforeWrite ==
  /\ request.search = 2
  /\ searchPc = "read"
  /\ Cardinality(LearnInvocations(1)) = 1
  /\ \A w \in 1..Len(events) : events[w].at # "written"

\* C30: whenever update-learning-index is invoked for a session, compute-sqm has
\* been invoked for that session before.
C30_QualityBeforeLearning ==
  \A e \in 1..Len(events) :
     events[e].at = "invoked" /\ events[e].fn = "update-learning-index" =>
       \E q \in 1..e : events[q] = Invoked("compute-sqm", events[e].id)

\* the learning index has been written for a session and compute-sqm was never
\* invoked
C30_LearnedWithoutQuality ==
  /\ \E w \in 1..Len(events) : events[w].at = "written"
  /\ \A e \in 1..Len(events) : events[e].fn # "compute-sqm"

----------------------------------------------------------------------------
(* Claims that compare the strategies *)

----------------------------------------------------------------------------
(* Claims about every strategy *)

\* C27: whatever the strategy requested, one of the seven or an unknown name, the
\* list rankResults returns holds each merged document exactly once, none added and
\* none dropped, and the list it was given is left as it was.
C27_StrategiesPermute ==
  [][aggPc = "deduped" /\ aggPc' = "ranked" =>
       /\ IsPermutation(merged', deduplicated)
       /\ \A i, j \in 1..Len(merged') : merged'[i] = merged'[j] => i = j
       /\ deduplicated' = deduplicated]_vars

\* three documents were reordered by the shimura strategy
C27_Witness ==
  /\ Ranked("shimura")
  /\ Len(deduplicated) = 3
  /\ merged # deduplicated
  /\ IsPermutation(merged, deduplicated)

\* documents were reordered under an unknown strategy name
C27_WitnessUnknown ==
  /\ Ranked("condorcet")
  /\ Len(deduplicated) >= 2
  /\ merged # deduplicated

----------------------------------------------------------------------------
(* Claims about the ranks that reach the aggregator *)

\* the Borda points of a list of reports
PointsOf(reports) ==
  LET upTo[k \in 0..Len(reports)] ==
        IF k = 0 THEN 0 ELSE upTo[k - 1] + (11 - reports[k].rank)
  IN  upTo[Len(reports)]

\* the reports of a document without its k-th
WithoutReport(reports, k) ==
  SubSeq(reports, 1, k - 1) \o SubSeq(reports, k + 1, Len(reports))

\* C29: every rank the handler passes to the aggregator, from an engine or from the
\* learned source, lies in 1..10, so the Borda contribution 11 - rank of every report
\* is positive and no document has fewer points with a report than without it.
C29_RanksWithinN ==
  hPc = "done" =>
    \A d \in 1..Len(merged) :
       \A k \in 1..Len(merged[d].engines) :
          /\ merged[d].engines[k].rank \in 1..10
          /\ 11 - merged[d].engines[k].rank > 0
          /\ PointsOf(merged[d].engines) >= PointsOf(WithoutReport(merged[d].engines, k))

\* the learned source ranks a document 12th: its Borda score is negative, and the
\* document google and the learned source both rank first is ahead of it
C29_NegativeContribution ==
  /\ hPc = "done"
  /\ Len(merged) >= 12
  /\ Len(merged[1].engines) = 2
  /\ \E d \in 1..Len(merged) :
       /\ merged[d].engines = <<[engine |-> "learned", rank |-> 12]>>
       /\ bordaScore(merged[d]) < 0

====
